---------------------------- MODULE Spec2Model ----------------------------
(***************************************************************************)
(* A model of TiledArray's SparseShape<T> (src/src/TiledArray/             *)
(* sparse_shape.h): the per-tile normalized norm field, its cached zero    *)
(* tile count, the process-wide zero threshold and the shape algebra.      *)
(*                                                                         *)
(* Numbers.  Norms are floating point values in the source.  The model     *)
(* uses tile extents that are powers of four and norms that are whole      *)
(* multiples of one unit, so every product, quotient and square root the   *)
(* kernels form is exact in binary floating point and is an integer here.  *)
(* A reciprocal 1/size is held as the integer One/size (scale One), a      *)
(* reciprocal square root as SqrtOne/sqrt(size) (scale SqrtOne); a kernel  *)
(* that multiplies a norm by dim such factors divides by the scale^dim.    *)
(* An operation whose result is not a whole number of units, or exceeds    *)
(* MaxNorm, is outside the modelled inputs (its action is disabled).       *)
(* A one-dimensional shape is normalized by division, without a            *)
(* reciprocal, so the one-dimensional example uses the extents 2, 3, 5.    *)
(*                                                                         *)
(* Memory.  Tensor<T> copies are shallow (the copies share one data        *)
(* buffer, sparse_shape.h:252-259 and the clone() calls at 220 and 410),   *)
(* so a tensor is a handle [buf, range] into the heap of data buffers.     *)
(*                                                                         *)
(* zero_tile_count_ is a size_type that the kernels load into a signed     *)
(* madness::AtomicInt, step, and store back.  The model keeps the signed   *)
(* value c; the stored size_type is c modulo 2^64, so c < 0 stands for the *)
(* wrapped value 2^64 + c.                                                 *)
(***************************************************************************)
EXTENDS Integers, Sequences, FiniteSets, TLC

VARIABLES
  heap,        \* data buffers of the norm tensors: buffer id -> row-major data
  shapes,      \* the caller's SparseShape objects: name -> shape
  threshold_,  \* SparseShape<T>::threshold_, the process-wide zero threshold
  last,        \* the call that produced the current state
  calls,       \* number of calls made so far
  history      \* the values the threshold setter was called with, in order

vars == <<heap, shapes, threshold_, last, calls, history>>

---------------------------------------------------------------------------
(* Bounds of the model *)

\* largest norm value (in units) an operation may produce
MaxNorm == 4
\* the threshold setter is called with 0..MaxThreshold
MaxThreshold == 3
\* scaling factors are drawn from -MaxFactor..MaxFactor
MaxFactor == 2
\* cap on the magnitude of a (possibly drifted) zero tile count
MaxCount == 5
\* number of calls in one run of the model
MaxCalls == 3
\* largest rank of a shape the model keeps
MaxRank == 2

\* std::numeric_limits<T>::epsilon(), the initial threshold, in units
Epsilon == 2

\* the names of the caller's shape objects
Slots == {"x", "y"}
\* ids of the data buffers (at most one per object is live)
BufIds == 1..Cardinality(Slots)
\* the tile extents used by the tiled ranges of the model
TileSizes == {1, 4}
\* the fixed point scale of a reciprocal tile extent
One == CHOOSE n \in TileSizes : \A s \in TileSizes : s <= n
\* integer square root of a perfect square
Sqrt(n) == CHOOSE r \in 0..n : r * r = n
\* the fixed point scale of a reciprocal square root of a tile extent
SqrtOne == Sqrt(One)

Thresholds == 0..MaxThreshold
Factors == (0 - MaxFactor)..MaxFactor

---------------------------------------------------------------------------
(* Sequences and row-major index arithmetic *)

Abs(n) == IF n < 0 THEN 0 - n ELSE n

RECURSIVE Prod(_)
Prod(s) == IF s = <<>> THEN 1 ELSE Head(s) * Prod(Tail(s))

RECURSIVE Pow(_, _)
Pow(b, e) == IF e = 0 THEN 1 ELSE b * Pow(b, e - 1)

\* number of elements of a range with the given extents
Volume(range) == Prod(range)

\* row-major stride of dimension d
Stride(range, d) == Prod(SubSeq(range, d + 1, Len(range)))

\* zero-based coordinate of the zero-based ordinal o
Coord(o, range) == [d \in 1..Len(range) |-> (o \div Stride(range, d)) % range[d]]

\* zero-based ordinal of a zero-based coordinate
RECURSIVE OrdinalFrom(_, _, _)
OrdinalFrom(c, range, d) ==
  IF d > Len(range) THEN 0
  ELSE c[d] * Stride(range, d) + OrdinalFrom(c, range, d + 1)

Ordinal(c, range) == OrdinalFrom(c, range, 1)

\* number of entries of a sequence below the threshold
RECURSIVE CountBelow(_, _)
CountBelow(s, thr) ==
  IF s = <<>> THEN 0
  ELSE (IF Head(s) < thr THEN 1 ELSE 0) + CountBelow(Tail(s), thr)

\* number of entries of a sequence that are exactly zero
RECURSIVE CountZero(_)
CountZero(s) ==
  IF s = <<>> THEN 0
  ELSE (IF Head(s) = 0 THEN 1 ELSE 0) + CountZero(Tail(s))

\* the extents of a sequence of size vectors
Extents(sizes) == [d \in 1..Len(sizes) |-> Len(sizes[d])]

---------------------------------------------------------------------------
(* The dense tile container (Tensor<T>), by its interface *)

\* Tensor::permute: result[perm(c)] = arg[c], result extent [perm[i]] = extent[i]
PermRange(range, perm) ==
  [d \in 1..Len(range) |-> range[CHOOSE i \in 1..Len(range) : perm[i] = d]]

PermData(data, range, perm) ==
  LET rr == PermRange(range, perm)
  IN [o \in 1..Len(data) |->
        LET rc == Coord(o - 1, rr)
            c == [i \in 1..Len(range) |-> rc[perm[i]]]
        IN data[Ordinal(c, range) + 1]]

\* Tensor::block(lower, upper): the sub-tensor [lower, upper), rebased at zero
BlockData(data, range, lower, upper) ==
  LET ext == [d \in 1..Len(range) |-> upper[d] - lower[d]]
  IN [o \in 1..Volume(ext) |->
        LET c == Coord(o - 1, ext)
        IN data[Ordinal([d \in 1..Len(range) |-> c[d] + lower[d]], range) + 1]]

\* is the zero-based coordinate c inside [lower, upper)
InBlock(c, lower, upper) == \A d \in 1..Len(c) : lower[d] <= c[d] /\ c[d] < upper[d]

\* the permutations of 1..n
Perms(n) == {p \in [1..n -> 1..n] : \A i, j \in 1..n : p[i] = p[j] => i = j}


---------------------------------------------------------------------------
(* Kernels of SparseShape.  A kernel takes the operands' norm data, range,  *)
(* size vectors and count, and the threshold read at its start, and returns *)
(* the members the private constructor receives:                            *)
(*   [norms, range, size_vectors, zero_tile_count].                         *)

\* a variant of the threshold test that keeps every value as it is
Screen_keep(v, thr) == v

\* the threshold test of every kernel: a value below the threshold becomes 0
Screen(v, thr) == IF v < thr THEN 0 ELSE v

Result(norms, range, size_vectors, count) ==
  [norms |-> norms, range |-> range, size_vectors |-> size_vectors,
   zero_tile_count |-> count]

\* the per-dimension operations handed to recursive_outer_product
VecOp(op, v) ==
  CASE op = "inv" -> [i \in 1..Len(v) |-> One \div v[i]]
    [] op = "inv_sqrt" -> [i \in 1..Len(v) |-> SqrtOne \div Sqrt(v[i])]
    [] op = "noop" -> v

\* ValArray::outer_fill with multiplication: result[i * |right| + j] = left[i] * right[j]
OuterFill(left, right) ==
  [i \in 1..(Len(left) * Len(right)) |->
     left[((i - 1) \div Len(right)) + 1] * right[((i - 1) % Len(right)) + 1]]

RECURSIVE recursive_outer_product(_, _, _)
recursive_outer_product(size_vectors, dim, op) ==
  IF dim = 1 THEN VecOp(op, size_vectors[1])
  ELSE LET middle == (dim \div 2) + (dim % 2)
           left == recursive_outer_product(SubSeq(size_vectors, 1, middle), middle, op)
           right == recursive_outer_product(
                      SubSeq(size_vectors, middle + 1, dim), dim - middle, op)
       IN OuterFill(left, right)

\* the factor math::outer hands to its operation for element i: <<x, y>>
OuterPair(size_vectors, op, i) ==
  LET dim == Len(size_vectors)
      middle == (dim \div 2) + (dim % 2)
      left == recursive_outer_product(SubSeq(size_vectors, 1, middle), middle, op)
      right == recursive_outer_product(
                 SubSeq(size_vectors, middle + 1, dim), dim - middle, op)
  IN <<left[((i - 1) \div Len(right)) + 1], right[((i - 1) % Len(right)) + 1]>>

\* normalize: the quotient norm / volume of element i as <<numerator, denominator>>
NormalizeQuot(norms, size_vectors, i) ==
  IF Len(size_vectors) = 1
  THEN <<norms[i], size_vectors[1][i]>>
  ELSE LET xy == OuterPair(size_vectors, "inv", i)
       IN <<norms[i] * (xy[1] * xy[2]), Pow(One, Len(size_vectors))>>

\* the raw norms whose normalized values are whole numbers of units
NormalizeExact(norms, size_vectors) ==
  \A i \in 1..Len(norms) :
    LET q == NormalizeQuot(norms, size_vectors, i) IN q[1] % q[2] = 0

\* a variant of normalize that also replaces a norm equal to the threshold
normalize_inclusive(norms, size_vectors, thr) ==
  LET quot == [i \in 1..Len(norms) |->
                 LET q == NormalizeQuot(norms, size_vectors, i) IN q[1] \div q[2]]
  IN Result([i \in 1..Len(norms) |-> Screen(quot[i], thr + 1)], Extents(size_vectors),
            size_vectors, CountBelow(quot, thr + 1))

\* SparseShape::normalize
normalize(norms, size_vectors, thr) ==
  LET quot == [i \in 1..Len(norms) |->
                 LET q == NormalizeQuot(norms, size_vectors, i) IN q[1] \div q[2]]
  IN Result([i \in 1..Len(norms) |-> Screen(quot[i], thr)], Extents(size_vectors),
            size_vectors, CountBelow(quot, thr))

\* a variant of perm_size_vectors that reads along the permutation:
\* result[i] = size_vectors_[perm[i]]
perm_size_vectors_read(size_vectors, perm) ==
  [d \in 1..Len(size_vectors) |-> size_vectors[perm[d]]]

\* a variant of to_abs_factor that converts the factor without std::abs
to_abs_factor_signed(factor) == factor

\* to_abs_factor
to_abs_factor(factor) == Abs(factor)

perm_size_vectors(size_vectors, perm) ==
  [d \in 1..Len(size_vectors) |->
     size_vectors[CHOOSE i \in 1..Len(size_vectors) : perm[i] = d]]

\* SparseShape::perm
perm(S, p) ==
  Result(PermData(S.norms, S.range, p), PermRange(S.range, p),
         perm_size_vectors(S.size_vectors, p), S.zero_tile_count)

\* a variant of scale(factor) without the threshold pass
scale_keep(S, factor, thr) ==
  Result([i \in 1..Len(S.norms) |-> S.norms[i] * to_abs_factor(factor)],
         S.range, S.size_vectors, 0)

\* SparseShape::scale(factor)
scale(S, factor, thr) ==
  LET v == [i \in 1..Len(S.norms) |-> S.norms[i] * to_abs_factor(factor)]
  IN Result([i \in 1..Len(v) |-> Screen(v[i], thr)], S.range, S.size_vectors,
            CountBelow(v, thr))

\* SparseShape::scale(factor, perm)
scale_perm(S, factor, p, thr) ==
  LET v == [i \in 1..Len(S.norms) |-> S.norms[i] * to_abs_factor(factor)]
  IN Result(PermData([i \in 1..Len(v) |-> Screen(v[i], thr)], S.range, p),
            PermRange(S.range, p), perm_size_vectors(S.size_vectors, p),
            CountBelow(v, thr))

\* SparseShape::add(other)
add(S, O, thr) ==
  LET v == [i \in 1..Len(S.norms) |-> S.norms[i] + O.norms[i]]
  IN Result([i \in 1..Len(v) |-> Screen(v[i], thr)], S.range, S.size_vectors,
            CountBelow(v, thr))

\* SparseShape::add(other, perm)
add_perm(S, O, p, thr) ==
  LET v == [i \in 1..Len(S.norms) |-> S.norms[i] + O.norms[i]]
  IN Result(PermData([i \in 1..Len(v) |-> Screen(v[i], thr)], S.range, p),
            PermRange(S.range, p), perm_size_vectors(S.size_vectors, p),
            CountBelow(v, thr))

\* SparseShape::add(other, factor)
add_factor(S, O, factor, thr) ==
  LET v == [i \in 1..Len(S.norms) |->
              (S.norms[i] + O.norms[i]) * to_abs_factor(factor)]
  IN Result([i \in 1..Len(v) |-> Screen(v[i], thr)], S.range, S.size_vectors,
            CountBelow(v, thr))

\* SparseShape::add(other, factor, perm)
add_factor_perm(S, O, factor, p, thr) ==
  LET v == [i \in 1..Len(S.norms) |->
              (S.norms[i] + O.norms[i]) * to_abs_factor(factor)]
  IN Result(PermData([i \in 1..Len(v) |-> Screen(v[i], thr)], S.range, p),
            PermRange(S.range, p), perm_size_vectors(S.size_vectors, p),
            CountBelow(v, thr))

\* add(value): the increment |value| / sqrt(volume) of element i as a quotient
AddValueQuot(S, value, i) ==
  IF Len(S.size_vectors) = 1
  THEN <<Abs(value), Sqrt(S.size_vectors[1][i])>>
  ELSE LET xy == OuterPair(S.size_vectors, "inv_sqrt", i)
       IN <<Abs(value) * xy[1] * xy[2], Pow(SqrtOne, Len(S.size_vectors))>>

AddValueExact(S, value) ==
  \A i \in 1..Len(S.norms) :
    LET q == AddValueQuot(S, value, i) IN q[1] % q[2] = 0

\* SparseShape::add(value)
add_value(S, value, thr) ==
  LET v == [i \in 1..Len(S.norms) |->
              LET q == AddValueQuot(S, value, i) IN S.norms[i] + (q[1] \div q[2])]
  IN Result([i \in 1..Len(v) |-> Screen(v[i], thr)], S.range, S.size_vectors,
            CountBelow(v, thr))

\* SparseShape::add(value, perm)
add_value_perm(S, value, p, thr) == perm(add_value(S, value, thr), p)

\* SparseShape::subt, all overloads
subt(S, O, thr) == add(S, O, thr)
subt_perm(S, O, p, thr) == add_perm(S, O, p, thr)
subt_factor(S, O, factor, thr) == add_factor(S, O, factor, thr)
subt_factor_perm(S, O, factor, p, thr) == add_factor_perm(S, O, factor, p, thr)
subt_value(S, value, thr) == add_value(S, value, thr)
subt_value_perm(S, value, p, thr) == add_value_perm(S, value, p, thr)

---------------------------------------------------------------------------
(* Kernels, continued: mult, mask, sub-blocks, gemm, transform *)

\* a variant of scale_by_size that thresholds and counts without multiplying
\* by the tile volumes
scale_by_size_unit(norms, size_vectors, thr) ==
  [norms |-> [i \in 1..Len(norms) |-> Screen(norms[i], thr)],
   zero_tile_count |-> CountBelow(norms, thr)]

\* scale_by_size: multiply by the tile volumes, threshold, count
scale_by_size(norms, size_vectors, thr) ==
  LET v == [i \in 1..Len(norms) |->
              IF Len(size_vectors) = 1
              THEN norms[i] * size_vectors[1][i]
              ELSE LET xy == OuterPair(size_vectors, "noop", i)
                   IN norms[i] * (xy[1] * xy[2])]
  IN [norms |-> [i \in 1..Len(v) |-> Screen(v[i], thr)],
      zero_tile_count |-> CountBelow(v, thr)]

\* SparseShape::mult(other)
mult(S, O, thr) ==
  LET r == scale_by_size([i \in 1..Len(S.norms) |-> S.norms[i] * O.norms[i]],
                         S.size_vectors, thr)
  IN Result(r.norms, S.range, S.size_vectors, r.zero_tile_count)

\* SparseShape::mult(other, perm)
mult_perm(S, O, p, thr) ==
  LET sv == perm_size_vectors(S.size_vectors, p)
      r == scale_by_size(
             PermData([i \in 1..Len(S.norms) |-> S.norms[i] * O.norms[i]], S.range, p),
             sv, thr)
  IN Result(r.norms, PermRange(S.range, p), sv, r.zero_tile_count)

\* SparseShape::mult(other, factor)
mult_factor(S, O, factor, thr) ==
  LET r == scale_by_size(
             [i \in 1..Len(S.norms) |-> S.norms[i] * O.norms[i] * to_abs_factor(factor)],
             S.size_vectors, thr)
  IN Result(r.norms, S.range, S.size_vectors, r.zero_tile_count)

\* a variant of mult(other, factor, perm) that hands this shape's size
\* vectors to scale_by_size, not the permuted ones
mult_factor_perm_sizes(S, O, factor, p, thr) ==
  LET sv == perm_size_vectors(S.size_vectors, p)
      r == scale_by_size(
             PermData([i \in 1..Len(S.norms) |->
                         S.norms[i] * O.norms[i] * to_abs_factor(factor)], S.range, p),
             S.size_vectors, thr)
  IN Result(r.norms, PermRange(S.range, p), sv, r.zero_tile_count)

\* SparseShape::mult(other, factor, perm)
mult_factor_perm(S, O, factor, p, thr) ==
  LET sv == perm_size_vectors(S.size_vectors, p)
      r == scale_by_size(
             PermData([i \in 1..Len(S.norms) |->
                         S.norms[i] * O.norms[i] * to_abs_factor(factor)], S.range, p),
             sv, thr)
  IN Result(r.norms, PermRange(S.range, p), sv, r.zero_tile_count)

\* the mask kernel's count: it starts at this shape's count and is stepped
\* once per tile with left >= threshold and right < threshold
MaskCount(S, M, thr) ==
  S.zero_tile_count
    + Cardinality({i \in 1..Len(S.norms) : S.norms[i] >= thr /\ M.norms[i] < thr})

\* a variant of mask that tests the mask's norm the other way round: it zeroes
\* where the mask's norm is at or above the threshold
mask_inverted(S, M, thr) ==
  Result([i \in 1..Len(S.norms) |->
            IF S.norms[i] >= thr /\ M.norms[i] >= thr THEN 0 ELSE S.norms[i]],
         S.range, S.size_vectors, MaskCount(S, M, thr))

\* SparseShape::mask(mask_shape)
mask(S, M, thr) ==
  Result([i \in 1..Len(S.norms) |->
            IF S.norms[i] >= thr /\ M.norms[i] < thr THEN 0 ELSE S.norms[i]],
         S.range, S.size_vectors, MaskCount(S, M, thr))

\* the element of other that update_block copies over element i of the
\* sub-block [lower, upper) of this shape
UpdateSource(S, lower, upper, O, i) ==
  LET c == Coord(i - 1, S.range)
  IN O.norms[Ordinal([d \in 1..Len(c) |-> c[d] - lower[d]], O.range) + 1]

\* a variant of update_block's counter with the two steps exchanged: ++ where
\* (l >= threshold) and (r < threshold), -- where (l < threshold) and
\* (r >= threshold)
UpdateBlockCount_exchanged(S, lower, upper, O, thr) ==
  LET cells == {i \in 1..Len(S.norms) : InBlock(Coord(i - 1, S.range), lower, upper)}
      up == {i \in cells :
               S.norms[i] >= thr /\ UpdateSource(S, lower, upper, O, i) < thr}
      down == {i \in cells :
                 S.norms[i] < thr /\ UpdateSource(S, lower, upper, O, i) >= thr}
  IN S.zero_tile_count + Cardinality(up) - Cardinality(down)

\* the steps update_block applies to its counter over the cells of the
\* sub-block: ++ where (l < threshold) and (r >= threshold), -- where
\* (l >= threshold) and (r < threshold)
UpdateBlockCount(S, lower, upper, O, thr) ==
  LET cells == {i \in 1..Len(S.norms) : InBlock(Coord(i - 1, S.range), lower, upper)}
      up == {i \in cells :
               S.norms[i] < thr /\ UpdateSource(S, lower, upper, O, i) >= thr}
      down == {i \in cells :
                 S.norms[i] >= thr /\ UpdateSource(S, lower, upper, O, i) < thr}
  IN S.zero_tile_count + Cardinality(up) - Cardinality(down)

\* SparseShape::update_block(lower_bound, upper_bound, other)
update_block(S, lower, upper, O, thr) ==
  Result([i \in 1..Len(S.norms) |->
            IF InBlock(Coord(i - 1, S.range), lower, upper)
            THEN UpdateSource(S, lower, upper, O, i)
            ELSE S.norms[i]],
         S.range, S.size_vectors, UpdateBlockCount(S, lower, upper, O, thr))

\* the bounds block_range accepts: one per dimension, lower < upper <= extent
ValidBounds(range, lower, upper) ==
  /\ Len(lower) = Len(range)
  /\ Len(upper) = Len(range)
  /\ \A d \in 1..Len(range) : 0 <= lower[d] /\ lower[d] < upper[d] /\ upper[d] <= range[d]

\* all valid bound pairs of a range
BoundPairs(range) ==
  LET m == CHOOSE e \in 0..Volume(range) :
             \A d \in 1..Len(range) : range[d] <= e
  IN {b \in [1..Len(range) -> (0..m) \X (0..m)] :
        \A d \in 1..Len(range) : b[d][1] < b[d][2] /\ b[d][2] <= range[d]}

Lower(b) == [d \in 1..Len(b) |-> b[d][1]]
Upper(b) == [d \in 1..Len(b) |-> b[d][2]]

\* a variant of block_range that takes the first upper - lower sizes of each
\* size vector, whatever the lower bound is
block_range_from_zero(size_vectors, lower, upper) ==
  [d \in 1..Len(lower) |-> SubSeq(size_vectors[d], 1, upper[d] - lower[d])]

\* SparseShape::block_range
block_range(size_vectors, lower, upper) ==
  [d \in 1..Len(lower) |-> SubSeq(size_vectors[d], lower[d] + 1, upper[d])]

\* a variant of block(lower_bound, upper_bound) that writes 0 for the values
\* it counts, as block(lower_bound, upper_bound, factor) does
block_screen(S, lower, upper, thr) ==
  LET v == BlockData(S.norms, S.range, lower, upper)
  IN Result([i \in 1..Len(v) |-> Screen(v[i], thr)],
            [d \in 1..Len(lower) |-> upper[d] - lower[d]],
            block_range(S.size_vectors, lower, upper), CountBelow(v, thr))

\* SparseShape::block(lower_bound, upper_bound)
block(S, lower, upper, thr) ==
  LET v == BlockData(S.norms, S.range, lower, upper)
  IN Result(v, [d \in 1..Len(lower) |-> upper[d] - lower[d]],
            block_range(S.size_vectors, lower, upper), CountBelow(v, thr))

\* SparseShape::block(lower_bound, upper_bound, factor)
block_factor(S, lower, upper, factor, thr) ==
  LET b == BlockData(S.norms, S.range, lower, upper)
      v == [i \in 1..Len(b) |-> b[i] * to_abs_factor(factor)]
  IN Result([i \in 1..Len(v) |-> Screen(v[i], thr)],
            [d \in 1..Len(lower) |-> upper[d] - lower[d]],
            block_range(S.size_vectors, lower, upper), CountBelow(v, thr))

\* SparseShape::block(lower_bound, upper_bound, perm)
block_perm(S, lower, upper, p, thr) == perm(block(S, lower, upper, thr), p)

\* SparseShape::block(lower_bound, upper_bound, factor, perm)
block_factor_perm(S, lower, upper, factor, p, thr) ==
  perm(block_factor(S, lower, upper, factor, thr), p)

---------------------------------------------------------------------------
(* Contraction *)

RECURSIVE Sum(_)
Sum(s) == IF s = <<>> THEN 0 ELSE Head(s) + Sum(Tail(s))

\* math::GemmHelper for an untransposed contraction over the last k_rank
\* dimensions of the left operand and the first k_rank of the right one
\* (dimension numbers are zero-based, as in the source)
GemmHelper(left_rank, right_rank, k_rank) ==
  [left_outer_begin |-> 0, left_outer_end |-> left_rank - k_rank,
   left_inner_begin |-> left_rank - k_rank, left_inner_end |-> left_rank,
   right_inner_begin |-> 0, right_inner_end |-> k_rank,
   right_outer_begin |-> k_rank, right_outer_end |-> right_rank,
   result_rank |-> (left_rank - k_rank) + (right_rank - k_rank)]

\* the contractions the helper accepts between two ranges
GemmCompatible(lrange, rrange, k_rank) ==
  /\ k_rank <= Len(lrange)
  /\ k_rank <= Len(rrange)
  /\ Len(lrange) + Len(rrange) - 2 * k_rank >= 1
  /\ \A d \in 1..k_rank : lrange[Len(lrange) - k_rank + d] = rrange[d]

\* a variant of gemm that weights only the left operand by the inner tile
\* sizes
gemm_left_weighted(S, O, factor, h, thr) ==
  LET abs_factor == to_abs_factor(factor)
      louter == SubSeq(S.range, h.left_outer_begin + 1, h.left_outer_end)
      router == SubSeq(O.range, h.right_outer_begin + 1, h.right_outer_end)
      M == Prod(louter)
      N == Prod(router)
      K == Prod(SubSeq(S.range, h.left_inner_begin + 1, h.left_inner_end))
      result_size_vectors ==
        SubSeq(S.size_vectors, h.left_outer_begin + 1, h.left_outer_end)
          \o SubSeq(O.size_vectors, h.right_outer_begin + 1, h.right_outer_end)
      k_rank == h.left_inner_end - h.left_inner_begin
      k_sizes == recursive_outer_product(
                   SubSeq(S.size_vectors, h.left_inner_begin + 1, h.left_inner_end),
                   k_rank, "noop")
      left == [i \in 1..(M * K) |-> S.norms[i] * k_sizes[((i - 1) % K) + 1]]
      right == [i \in 1..(K * N) |-> O.norms[i]]
      v == IF k_rank > 0
           THEN [o \in 1..(M * N) |->
                   LET i == (o - 1) \div N
                       j == (o - 1) % N
                   IN abs_factor
                        * Sum([k \in 1..K |-> left[i * K + k] * right[(k - 1) * N + j + 1]])]
           ELSE [o \in 1..(M * N) |->
                   S.norms[((o - 1) \div N) + 1] * O.norms[((o - 1) % N) + 1] * abs_factor]
  IN Result([o \in 1..Len(v) |-> Screen(v[o], thr)], louter \o router,
            result_size_vectors, CountBelow(v, thr))

\* a variant of gemm whose right_op adds the inner tile size to the right
\* operand's norm where gemm multiplies by it
gemm_right_added(S, O, factor, h, thr) ==
  LET abs_factor == to_abs_factor(factor)
      louter == SubSeq(S.range, h.left_outer_begin + 1, h.left_outer_end)
      router == SubSeq(O.range, h.right_outer_begin + 1, h.right_outer_end)
      M == Prod(louter)
      N == Prod(router)
      K == Prod(SubSeq(S.range, h.left_inner_begin + 1, h.left_inner_end))
      result_size_vectors ==
        SubSeq(S.size_vectors, h.left_outer_begin + 1, h.left_outer_end)
          \o SubSeq(O.size_vectors, h.right_outer_begin + 1, h.right_outer_end)
      k_rank == h.left_inner_end - h.left_inner_begin
      k_sizes == recursive_outer_product(
                   SubSeq(S.size_vectors, h.left_inner_begin + 1, h.left_inner_end),
                   k_rank, "noop")
      left == [i \in 1..(M * K) |-> S.norms[i] * k_sizes[((i - 1) % K) + 1]]
      right == [i \in 1..(K * N) |-> O.norms[i] + k_sizes[((i - 1) \div N) + 1]]
      v == IF k_rank > 0
           THEN [o \in 1..(M * N) |->
                   LET i == (o - 1) \div N
                       j == (o - 1) % N
                   IN abs_factor
                        * Sum([k \in 1..K |-> left[i * K + k] * right[(k - 1) * N + j + 1]])]
           ELSE [o \in 1..(M * N) |->
                   S.norms[((o - 1) \div N) + 1] * O.norms[((o - 1) % N) + 1] * abs_factor]
  IN Result([o \in 1..Len(v) |-> Screen(v[o], thr)], louter \o router,
            result_size_vectors, CountBelow(v, thr))

\* SparseShape::gemm(other, factor, gemm_helper)
gemm(S, O, factor, h, thr) ==
  LET abs_factor == to_abs_factor(factor)
      louter == SubSeq(S.range, h.left_outer_begin + 1, h.left_outer_end)
      router == SubSeq(O.range, h.right_outer_begin + 1, h.right_outer_end)
      M == Prod(louter)
      N == Prod(router)
      K == Prod(SubSeq(S.range, h.left_inner_begin + 1, h.left_inner_end))
      result_size_vectors ==
        SubSeq(S.size_vectors, h.left_outer_begin + 1, h.left_outer_end)
          \o SubSeq(O.size_vectors, h.right_outer_begin + 1, h.right_outer_end)
      k_rank == h.left_inner_end - h.left_inner_begin
      k_sizes == recursive_outer_product(
                   SubSeq(S.size_vectors, h.left_inner_begin + 1, h.left_inner_end),
                   k_rank, "noop")
      left == [i \in 1..(M * K) |-> S.norms[i] * k_sizes[((i - 1) % K) + 1]]
      right == [i \in 1..(K * N) |-> O.norms[i] * k_sizes[((i - 1) \div N) + 1]]
      v == IF k_rank > 0
           THEN [o \in 1..(M * N) |->
                   LET i == (o - 1) \div N
                       j == (o - 1) % N
                   IN abs_factor
                        * Sum([k \in 1..K |-> left[i * K + k] * right[(k - 1) * N + j + 1]])]
           ELSE [o \in 1..(M * N) |->
                   S.norms[((o - 1) \div N) + 1] * O.norms[((o - 1) % N) + 1] * abs_factor]
  IN Result([o \in 1..Len(v) |-> Screen(v[o], thr)], louter \o router,
            result_size_vectors, CountBelow(v, thr))

\* SparseShape::gemm(other, factor, gemm_helper, perm)
gemm_perm(S, O, factor, h, p, thr) == perm(gemm(S, O, factor, h, thr), p)

\* the threshold pass of SparseShape::transform over the tensor op returned
apply_threshold(norms, thr) ==
  [norms |-> [i \in 1..Len(norms) |-> Screen(norms[i], thr)],
   zero_tile_count |-> CountBelow(norms, thr)]

---------------------------------------------------------------------------
(* Shape objects and the heap *)

\* a default-constructed shape: no norm tensor, no size vectors, count 0
EmptyShape ==
  [tile_norms_ |-> [buf |-> 0, range |-> <<>>], size_vectors_ |-> <<>>,
   zero_tile_count_ |-> 0]

\* the private constructor: a shallow copy of the tensor handle, the size
\* vectors and the count
SparseShape(buf, range, size_vectors, zero_tile_count) ==
  [tile_norms_ |-> [buf |-> buf, range |-> range], size_vectors_ |-> size_vectors,
   zero_tile_count_ |-> zero_tile_count]

\* SparseShape::empty
empty(sh) == sh.tile_norms_.buf = 0

\* SparseShape::data: the norm data of a shape
data(h, sh) == IF empty(sh) THEN <<>> ELSE h[sh.tile_norms_.buf]

\* the operand a kernel reads
Operand(h, sh) ==
  Result(data(h, sh), sh.tile_norms_.range, sh.size_vectors_, sh.zero_tile_count_)

\* SparseShape::operator[]
norm(h, sh, i) == data(h, sh)[i]

\* SparseShape::is_zero
is_zero(h, sh, i, thr) == data(h, sh)[i] < thr

\* the tiles of a shape, as one-based ordinals
Tiles(sh) == IF empty(sh) THEN {} ELSE 1..Volume(sh.tile_norms_.range)

\* a buffer no object other than dst refers to
FreshBuf(sh, dst) ==
  CHOOSE b \in BufIds :
    /\ \A s \in Slots \ {dst} : sh[s].tile_norms_.buf # b
    /\ \A c \in BufIds :
         (\A s \in Slots \ {dst} : sh[s].tile_norms_.buf # c) => b <= c

\* the heap after the objects sh are all that is left: unreferenced buffers
\* are released
Collect(h, sh) ==
  [b \in BufIds |-> IF \E s \in Slots : sh[s].tile_norms_.buf = b THEN h[b] ELSE <<>>]

\* the results the model keeps: rank within MaxRank, norms within MaxNorm,
\* counts within MaxCount
Bounded(r) ==
  /\ Len(r.range) <= MaxRank
  /\ \A i \in 1..Len(r.norms) : r.norms[i] <= MaxNorm
  /\ Abs(r.zero_tile_count) <= MaxCount

\* dst = <the shape a kernel returned>: the result owns a fresh tensor
Return(dst, r, op) ==
  \E v \in {r} : \E b \in {FreshBuf(shapes, dst)} :
    /\ Bounded(v)
    /\ shapes' = [shapes EXCEPT ![dst] =
                    SparseShape(b, v.range, v.size_vectors, v.zero_tile_count)]
    /\ heap' = Collect([heap EXCEPT ![b] = v.norms], shapes')
    /\ last' = [op |-> op, dst |-> dst]
    /\ calls' = calls + 1
    /\ UNCHANGED <<threshold_, history>>

---------------------------------------------------------------------------
(* Inputs of the model *)

\* tiled ranges, as the tile extents per dimension
TRanges == {<<<<1, 4>>>>, <<<<1, 4>>, <<4>>>>}

\* raw tile norms handed to the constructor
RawNorms == {0, 4, 8, 16}

\* scalars handed to add(value)
Scalars == {0 - SqrtOne, 0, SqrtOne, One}

\* the functions handed to transform: a deep copy, the tensor itself
\* (a shallow copy of the argument) and a default-constructed tensor
TransformOps == {"clone", "identity", "empty"}

---------------------------------------------------------------------------
(* Operations *)

Init ==
  /\ heap = [b \in BufIds |-> <<>>]
  /\ shapes = [s \in Slots |-> EmptyShape]
  /\ threshold_ = Epsilon
  /\ last = [op |-> "init", dst |-> "none"]
  /\ calls = 0
  /\ history = <<>>

\* dst = SparseShape(tile_norms, trange)
Construct(dst) ==
  /\ calls < MaxCalls
  /\ \E tr \in TRanges :
      \E raw \in [1..Volume(Extents(tr)) -> RawNorms] :
        /\ \A i \in 1..Len(raw) : raw[i] >= 0
        /\ NormalizeExact(raw, tr)
        /\ Return(dst, normalize(raw, tr, threshold_), "SparseShape")

\* dst = src (operator=, a shallow copy)
Assign(dst, src) ==
  /\ calls < MaxCalls
  /\ dst # src
  /\ shapes' = [shapes EXCEPT ![dst] = shapes[src]]
  /\ heap' = Collect(heap, shapes')
  /\ last' = [op |-> "operator=", dst |-> dst]
  /\ calls' = calls + 1
  /\ UNCHANGED <<threshold_, history>>

\* a variant of the setter that also applies the new threshold to the norms
\* and counts of the shapes that exist
SetThreshold_rescreen(thresh) ==
  /\ calls < MaxCalls
  /\ thresh # threshold_
  /\ threshold_' = thresh
  /\ history' = Append(history, thresh)
  /\ last' = [op |-> "threshold", dst |-> "none"]
  /\ calls' = calls + 1
  /\ heap' = [b \in BufIds |-> apply_threshold(heap[b], thresh).norms]
  /\ shapes' = [s \in Slots |->
                  [shapes[s] EXCEPT !.zero_tile_count_ =
                     apply_threshold(data(heap, shapes[s]), thresh).zero_tile_count]]

\* SparseShape::threshold(thresh)
SetThreshold(thresh) ==
  /\ calls < MaxCalls
  /\ thresh # threshold_
  /\ threshold_' = thresh
  /\ history' = Append(history, thresh)
  /\ last' = [op |-> "threshold", dst |-> "none"]
  /\ calls' = calls + 1
  /\ UNCHANGED <<heap, shapes>>

\* a variant of scale whose result is left as the default constructor leaves
\* an object
Scale_default(dst, a) ==
  /\ calls < MaxCalls
  /\ ~empty(shapes[a])
  /\ shapes' = [shapes EXCEPT ![dst] = EmptyShape]
  /\ heap' = Collect(heap, shapes')
  /\ last' = [op |-> "scale", dst |-> dst]
  /\ calls' = calls + 1
  /\ UNCHANGED <<threshold_, history>>

\* dst = a.scale(factor)
Scale(dst, a) ==
  /\ calls < MaxCalls
  /\ ~empty(shapes[a])
  /\ \E f \in Factors :
       Return(dst, scale(Operand(heap, shapes[a]), f, threshold_), "scale")

Perm(dst, a) ==
  /\ calls < MaxCalls
  /\ ~empty(shapes[a])
  /\ \E p \in Perms(Len(shapes[a].tile_norms_.range)) :
       Return(dst, perm(Operand(heap, shapes[a]), p), "perm")

\* the operands of a same-range binary operation
SameRange(a, b) ==
  /\ ~empty(shapes[a])
  /\ ~empty(shapes[b])
  /\ shapes[a].tile_norms_.range = shapes[b].tile_norms_.range

Add(dst, a, b) ==
  /\ calls < MaxCalls
  /\ SameRange(a, b)
  /\ Return(dst, add(Operand(heap, shapes[a]), Operand(heap, shapes[b]), threshold_),
            "add")

AddFactor(dst, a, b) ==
  /\ calls < MaxCalls
  /\ SameRange(a, b)
  /\ \E f \in Factors :
       Return(dst, add_factor(Operand(heap, shapes[a]), Operand(heap, shapes[b]), f,
                              threshold_), "add")

AddValue(dst, a) ==
  /\ calls < MaxCalls
  /\ ~empty(shapes[a])
  /\ \E v \in Scalars :
       /\ AddValueExact(Operand(heap, shapes[a]), v)
       /\ Return(dst, add_value(Operand(heap, shapes[a]), v, threshold_), "add")

Subt(dst, a, b) ==
  /\ calls < MaxCalls
  /\ SameRange(a, b)
  /\ Return(dst, subt(Operand(heap, shapes[a]), Operand(heap, shapes[b]), threshold_),
            "subt")

Mult(dst, a, b) ==
  /\ calls < MaxCalls
  /\ SameRange(a, b)
  /\ Return(dst, mult(Operand(heap, shapes[a]), Operand(heap, shapes[b]), threshold_),
            "mult")

MultFactor(dst, a, b) ==
  /\ calls < MaxCalls
  /\ SameRange(a, b)
  /\ \E f \in Factors :
       Return(dst, mult_factor(Operand(heap, shapes[a]), Operand(heap, shapes[b]), f,
                               threshold_), "mult")

Mask(dst, a, b) ==
  /\ calls < MaxCalls
  /\ SameRange(a, b)
  /\ Return(dst, mask(Operand(heap, shapes[a]), Operand(heap, shapes[b]), threshold_),
            "mask")

Block(dst, a) ==
  /\ calls < MaxCalls
  /\ ~empty(shapes[a])
  /\ \E bp \in BoundPairs(shapes[a].tile_norms_.range) :
       Return(dst, block(Operand(heap, shapes[a]), Lower(bp), Upper(bp), threshold_),
              "block")

BlockFactor(dst, a) ==
  /\ calls < MaxCalls
  /\ ~empty(shapes[a])
  /\ \E bp \in BoundPairs(shapes[a].tile_norms_.range) : \E f \in Factors :
       Return(dst, block_factor(Operand(heap, shapes[a]), Lower(bp), Upper(bp), f,
                                threshold_), "block")

UpdateBlock(dst, a, b) ==
  /\ calls < MaxCalls
  /\ ~empty(shapes[a])
  /\ ~empty(shapes[b])
  /\ \E bp \in BoundPairs(shapes[a].tile_norms_.range) :
       /\ shapes[b].tile_norms_.range
            = [d \in 1..Len(bp) |-> Upper(bp)[d] - Lower(bp)[d]]
       /\ Return(dst, update_block(Operand(heap, shapes[a]), Lower(bp), Upper(bp),
                                   Operand(heap, shapes[b]), threshold_),
                 "update_block")

Gemm(dst, a, b) ==
  /\ calls < MaxCalls
  /\ ~empty(shapes[a])
  /\ ~empty(shapes[b])
  /\ \E k \in 0..Len(shapes[a].tile_norms_.range) : \E f \in Factors :
       /\ GemmCompatible(shapes[a].tile_norms_.range, shapes[b].tile_norms_.range, k)
       /\ Return(dst, gemm(Operand(heap, shapes[a]), Operand(heap, shapes[b]), f,
                           GemmHelper(Len(shapes[a].tile_norms_.range),
                                      Len(shapes[b].tile_norms_.range), k),
                           threshold_), "gemm")

\* dst = a.transform(op): new_norms = op(tile_norms_) is thresholded in place,
\* in the buffer op returned
Transform(dst, a) ==
  /\ calls < MaxCalls
  /\ ~empty(shapes[a])
  /\ \E op \in TransformOps :
       LET S == Operand(heap, shapes[a])
           t == apply_threshold(S.norms, threshold_)
       IN CASE op = "clone" ->
                 LET b == FreshBuf(shapes, dst)
                     sh == [shapes EXCEPT ![dst] =
                              SparseShape(b, S.range, S.size_vectors, t.zero_tile_count)]
                 IN /\ shapes' = sh
                    /\ heap' = Collect([heap EXCEPT ![b] = t.norms], sh)
                    /\ last' = [op |-> "transform", dst |-> dst, fn |-> op]
                    /\ calls' = calls + 1
                    /\ UNCHANGED <<threshold_, history>>
            [] op = "identity" ->
                 LET b == shapes[a].tile_norms_.buf
                     sh == [shapes EXCEPT ![dst] =
                              SparseShape(b, S.range, S.size_vectors, t.zero_tile_count)]
                 IN /\ shapes' = sh
                    /\ heap' = Collect([heap EXCEPT ![b] = t.norms], sh)
                    /\ last' = [op |-> "transform", dst |-> dst, fn |-> op]
                    /\ calls' = calls + 1
                    /\ UNCHANGED <<threshold_, history>>
            [] op = "empty" ->
                 /\ shapes' = [shapes EXCEPT ![dst] =
                                 SparseShape(0, <<>>, S.size_vectors, 0)]
                 /\ heap' = Collect(heap, shapes')
                 /\ last' = [op |-> "transform", dst |-> dst, fn |-> op]
                 /\ calls' = calls + 1
                 /\ UNCHANGED <<threshold_, history>>

Next ==
  \/ \E dst \in Slots : Construct(dst)
  \/ \E dst, src \in Slots : Assign(dst, src)
  \/ \E thresh \in Thresholds : SetThreshold(thresh)
  \/ \E dst, a \in Slots : Scale(dst, a)
  \/ \E dst, a \in Slots : Perm(dst, a)
  \/ \E dst, a, b \in Slots : Add(dst, a, b)
  \/ \E dst, a, b \in Slots : AddFactor(dst, a, b)
  \/ \E dst, a \in Slots : AddValue(dst, a)
  \/ \E dst, a, b \in Slots : Subt(dst, a, b)
  \/ \E dst, a, b \in Slots : Mult(dst, a, b)
  \/ \E dst, a, b \in Slots : MultFactor(dst, a, b)
  \/ \E dst, a, b \in Slots : Mask(dst, a, b)
  \/ \E dst, a \in Slots : Block(dst, a)
  \/ \E dst, a \in Slots : BlockFactor(dst, a)
  \/ \E dst, a, b \in Slots : UpdateBlock(dst, a, b)
  \/ \E dst, a, b \in Slots : Gemm(dst, a, b)
  \/ \E dst, a \in Slots : Transform(dst, a)

Spec == Init /\ [][Next]_vars

---------------------------------------------------------------------------
(* update_block applied to one shape *)

\* the shapes update_block is applied to: a rank-1 range of five one-element
\* tiles and a 2 x 2 range of tiles of 1 and 4 elements, each with the raw
\* norms of the shape that is updated and of the shape that is copied in
UpdateInputs ==
  {[trange |-> <<<<1, 1, 1, 1, 1>>>>, self |-> {0, 2}, other |-> {0, 1}],
   [trange |-> <<<<1, 4>>, <<1, 4>>>>, self |-> RawNorms, other |-> {0, 16}]}

\* the raw norms of the shape copied into a sub-block of a shape over trange
OtherNorms(size_vectors) ==
  UNION {in.other : in \in {i \in UpdateInputs : Len(i.trange) = Len(size_vectors)
                                              /\ i.trange[1][1] = size_vectors[1][1]
                                              /\ Len(i.trange[1]) = Len(size_vectors[1])}}

\* the state after  threshold(t0); x = SparseShape(raw, trange); threshold(t1)
InitUB ==
  /\ \E in \in UpdateInputs : \E t0 \in Thresholds \ {0} :
       \E raw \in [1..Volume(Extents(in.trange)) -> in.self] :
         /\ NormalizeExact(raw, in.trange)
         /\ Bounded(normalize(raw, in.trange, t0))
         /\ LET r == normalize(raw, in.trange, t0)
            IN /\ shapes = [s \in Slots |->
                              IF s = "x"
                              THEN SparseShape(1, r.range, r.size_vectors, r.zero_tile_count)
                              ELSE EmptyShape]
               /\ heap = [b \in BufIds |-> IF b = 1 THEN r.norms ELSE <<>>]
         /\ \E t1 \in Thresholds :
              /\ threshold_ = t1
              /\ history = IF t1 = t0 THEN <<t0>> ELSE <<t0, t1>>
  /\ last = [op |-> "init", dst |-> "none"]
  /\ calls = 0

\* dst = <the shape update_block returned>, with the arguments of the call
ReturnUpdate(dst, a, lower, upper, O, arg) ==
  \E r \in {update_block(Operand(heap, shapes[a]), lower, upper, O, threshold_)} :
    \E b \in {FreshBuf(shapes, dst)} :
      /\ Bounded(r)
      /\ shapes' = [shapes EXCEPT ![dst] =
                      SparseShape(b, r.range, r.size_vectors, r.zero_tile_count)]
      /\ heap' = Collect([heap EXCEPT ![b] = r.norms], shapes')
      /\ last' = [op |-> "update_block", dst |-> dst, self |-> a, lower |-> lower,
                  upper |-> upper, other |-> O, arg |-> arg]
      /\ calls' = calls + 1
      /\ UNCHANGED <<threshold_, history>>

\* dst = a.update_block(lower, upper, SparseShape(raw, sub-range)), the other
\* shape constructed under the first or under the current threshold
UpdateFromShape(dst, a) ==
  /\ calls < MaxCalls
  /\ ~empty(shapes[a])
  /\ empty(shapes[dst])
  /\ \E bp \in BoundPairs(shapes[a].tile_norms_.range) :
       LET tr == block_range(shapes[a].size_vectors_, Lower(bp), Upper(bp))
       IN \E raw \in [1..Volume(Extents(tr)) -> OtherNorms(shapes[a].size_vectors_)] :
            \E t \in {history[1], threshold_} :
              /\ NormalizeExact(raw, tr)
              /\ \E O \in {normalize(raw, tr, t)} :
                   /\ Bounded(O)
                   /\ ReturnUpdate(dst, a, Lower(bp), Upper(bp), O, "SparseShape")

\* dst = a.update_block(lower, upper, a.block(lower, upper))
UpdateFromBlock(dst, a) ==
  /\ calls < MaxCalls
  /\ ~empty(shapes[a])
  /\ empty(shapes[dst])
  /\ \E bp \in BoundPairs(shapes[a].tile_norms_.range) :
       \E O \in {block(Operand(heap, shapes[a]), Lower(bp), Upper(bp), threshold_)} :
         ReturnUpdate(dst, a, Lower(bp), Upper(bp), O, "block")

NextUB ==
  \/ \E dst, a \in Slots : UpdateFromShape(dst, a)
  \/ \E dst, a \in Slots : UpdateFromBlock(dst, a)

SpecUB == InitUB /\ [][NextUB]_vars

---------------------------------------------------------------------------
(* Calls on one constructed shape, with their arguments on record *)

\* the tiled ranges of the shape: those of TRanges, and a rank-3 range of
\* 2 x 1 x 2 tiles whose dimensions all differ in their tile extents
\* the tiling of the one-dimensional example: tile extents 2, 3 and 5.  A
\* one-dimensional shape is normalized by division (no reciprocal is formed),
\* so any extent is exact here
ExampleRange == <<<<2, 3, 5>>>>

\* the raw norms of the example in units of one half: 4.0 and 3.0 are 8 and 6;
\* the third norm, 1e-8 in the source's example, is 5, the smallest norm of a
\* tile of extent 5 that is not 0, against a threshold of 2 units
ExampleRaw == <<8, 6, 5>>

URanges == TRanges \cup {<<<<1, 4>>, <<4>>, <<4, 1>>>>, ExampleRange}

\* the raw norms handed to the constructor over a tiled range
URawNorms(tr) ==
  IF tr = ExampleRange THEN {0} \cup {ExampleRaw[i] : i \in 1..Len(ExampleRaw)}
  ELSE IF Len(tr) <= 2 THEN RawNorms ELSE {0, 16, 64}

\* the inverse of a permutation
Inverse(p) == [d \in 1..Len(p) |-> CHOOSE i \in 1..Len(p) : p[i] = d]

\* the number of elements of tile i of a shape with the given size vectors
TileVolume(size_vectors, i) ==
  LET c == Coord(i - 1, Extents(size_vectors))
  IN Prod([d \in 1..Len(size_vectors) |-> size_vectors[d][c[d] + 1]])

\* SparseShape::sparsity, as <<numerator, denominator>>
sparsity(sh) == <<sh.zero_tile_count_, Volume(sh.tile_norms_.range)>>

\* dst = <the shape r a call returned>, the call's record kept in last
ReturnCall(dst, r, rec) ==
  \E v \in {r} : \E b \in {FreshBuf(shapes, dst)} :
    /\ \A i \in 1..Len(v.norms) : v.norms[i] <= MaxNorm
    /\ shapes' = [shapes EXCEPT ![dst] =
                    SparseShape(b, v.range, v.size_vectors, v.zero_tile_count)]
    /\ heap' = Collect([heap EXCEPT ![b] = v.norms], shapes')
    /\ last' = rec
    /\ calls' = calls + 1
    /\ UNCHANGED <<threshold_, history>>

\* dst = SparseShape(raw, trange), the first object made
ConstructFrom(dst) ==
  /\ calls < MaxCalls
  /\ \A s \in Slots : empty(shapes[s])
  /\ \E tr \in URanges : \E raw \in [1..Volume(Extents(tr)) -> URawNorms(tr)] :
       /\ NormalizeExact(raw, tr)
       /\ ReturnCall(dst, normalize(raw, tr, threshold_),
                     [op |-> "SparseShape", dst |-> dst, raw |-> raw, trange |-> tr])

\* dst = a.perm(p).perm(p^-1); mid is the shape a.perm(p)
PermBack(dst, a) ==
  /\ calls < MaxCalls
  /\ ~empty(shapes[a])
  /\ empty(shapes[dst])
  /\ \E p \in Perms(Len(shapes[a].tile_norms_.range)) :
       \E mid \in {perm(Operand(heap, shapes[a]), p)} :
         ReturnCall(dst, perm(mid, Inverse(p)),
                    [op |-> "perm", dst |-> dst, self |-> a, p |-> p, mid |-> mid])

\* dst = a.scale(f1).scale(f2); mid is a.scale(f1), once is
\* a.scale(|f1| * |f2|)
ScaleTwice(dst, a) ==
  /\ calls < MaxCalls
  /\ ~empty(shapes[a])
  /\ empty(shapes[dst])
  /\ \E f1, f2 \in Factors :
       \E mid \in {scale(Operand(heap, shapes[a]), f1, threshold_)} :
         ReturnCall(dst, scale(mid, f2, threshold_),
                    [op |-> "scale", dst |-> dst, self |-> a, a |-> f1, b |-> f2,
                     mid |-> mid,
                     once |-> scale(Operand(heap, shapes[a]), Abs(f1) * Abs(f2),
                                    threshold_)])

\* dst = a.block(lo, hi).block(0, hi - lo); mid is a.block(lo, hi)
BlockTwice(dst, a) ==
  /\ calls < MaxCalls
  /\ ~empty(shapes[a])
  /\ empty(shapes[dst])
  /\ \E bp \in BoundPairs(shapes[a].tile_norms_.range) :
       \E mid \in {block(Operand(heap, shapes[a]), Lower(bp), Upper(bp), threshold_)} :
         ReturnCall(dst,
                    block(mid, [d \in 1..Len(bp) |-> 0],
                          [d \in 1..Len(bp) |-> Upper(bp)[d] - Lower(bp)[d]], threshold_),
                    [op |-> "block", dst |-> dst, self |-> a, lower |-> Lower(bp),
                     upper |-> Upper(bp), mid |-> mid])

\* the user functions handed to transform: one returning a copy of its
\* argument, one returning the argument permuted
UserOps(range) == {<<"copy", [d \in 1..Len(range) |-> d]>>}
                    \cup {<<"permute", p>> : p \in Perms(Len(range))}

\* dst = a.transform(op): op's tensor is thresholded and handed to the private
\* constructor with the size vectors of a
TransformWith(dst, a) ==
  /\ calls < MaxCalls
  /\ ~empty(shapes[a])
  /\ empty(shapes[dst])
  /\ \E S \in {Operand(heap, shapes[a])} : \E op \in UserOps(S.range) :
     \E t \in {apply_threshold(PermData(S.norms, S.range, op[2]), threshold_)} :
       ReturnCall(dst,
                  Result(t.norms, PermRange(S.range, op[2]), S.size_vectors,
                         t.zero_tile_count),
                  [op |-> "transform", dst |-> dst, self |-> a, fn |-> op[1],
                   p |-> op[2]])

NextU ==
  \/ \E dst \in Slots : ConstructFrom(dst)
  \/ \E thresh \in Thresholds : SetThreshold(thresh)
  \/ \E dst, a \in Slots : PermBack(dst, a)
  \/ \E dst, a \in Slots : ScaleTwice(dst, a)
  \/ \E dst, a \in Slots : BlockTwice(dst, a)
  \/ \E dst, a \in Slots : TransformWith(dst, a)

\* the state before any shape is made: the threshold is the default, or the
\* setter has been called once
InitU ==
  /\ heap = [b \in BufIds |-> <<>>]
  /\ shapes = [s \in Slots |-> EmptyShape]
  /\ \E t0 \in Thresholds :
       /\ threshold_ = t0
       /\ history = IF t0 = Epsilon THEN <<>> ELSE <<t0>>
  /\ last = [op |-> "init", dst |-> "none"]
  /\ calls = 0

SpecU == InitU /\ [][NextU]_vars

---------------------------------------------------------------------------
(* Calls on two constructed shapes, with their arguments on record *)

\* the raw norms of the two shapes: those of RawNorms and two small ones, so
\* that a product of two norms that are not 0 can be below the threshold
BRawNorms == RawNorms \cup {1, 2}

\* the raw norms over tr whose normalized values the model keeps
Raws(tr, thr) ==
  {raw \in [1..Volume(Extents(tr)) -> BRawNorms] :
     /\ NormalizeExact(raw, tr)
     /\ Bounded(normalize(raw, tr, thr))}

\* the state after  threshold(t0); x = SparseShape(..); y = SparseShape(..);
\* threshold(t1)
InitB ==
  /\ \E t0, t1 \in Thresholds :
       /\ threshold_ = t1
       /\ history = IF t1 = t0 THEN <<t0>> ELSE <<t0, t1>>
       /\ \E trx, try \in TRanges : \E rawx \in Raws(trx, t0) : \E rawy \in Raws(try, t0) :
            \E X \in {normalize(rawx, trx, t0)} : \E Y \in {normalize(rawy, try, t0)} :
              /\ shapes = [s \in Slots |->
                             IF s = "x"
                             THEN SparseShape(1, X.range, X.size_vectors, X.zero_tile_count)
                             ELSE SparseShape(2, Y.range, Y.size_vectors, Y.zero_tile_count)]
              /\ heap = [b \in BufIds |-> IF b = 1 THEN X.norms ELSE Y.norms]
  /\ last = [op |-> "init", dst |-> "none"]
  /\ calls = 0

\* the same-range binary calls without a factor: <<name, result>>
BinaryCalls(S, O, thr) ==
  {<<"add", add(S, O, thr)>>, <<"subt", subt(S, O, thr)>>,
   <<"mult", mult(S, O, thr)>>, <<"mask", mask(S, O, thr)>>}

\* dst = a.add(b), a.subt(b), a.mult(b) or a.mask(b)
Binary(dst, a, b) ==
  /\ calls < MaxCalls
  /\ last.op = "init"
  /\ SameRange(a, b)
  /\ \E S \in {Operand(heap, shapes[a])} : \E O \in {Operand(heap, shapes[b])} :
       \E call \in BinaryCalls(S, O, threshold_) :
         ReturnCall(dst, call[2],
                    [op |-> call[1], dst |-> dst, self |-> S, other |-> O])

\* the calls that take a factor, made with f and with -f:
\* <<name, result, result with -f>>
FactorCalls(S, O, f, thr) ==
  {<<"scale", scale(S, f, thr), scale(S, 0 - f, thr)>>}
    \cup {<<"block", block_factor(S, Lower(bp), Upper(bp), f, thr),
            block_factor(S, Lower(bp), Upper(bp), 0 - f, thr)>> :
            bp \in BoundPairs(S.range)}
    \cup (IF S.range = O.range
          THEN {<<"add", add_factor(S, O, f, thr), add_factor(S, O, 0 - f, thr)>>,
                <<"mult", mult_factor(S, O, f, thr), mult_factor(S, O, 0 - f, thr)>>}
          ELSE {})
    \cup {<<"gemm",
            gemm(S, O, f, GemmHelper(Len(S.range), Len(O.range), k), thr),
            gemm(S, O, 0 - f, GemmHelper(Len(S.range), Len(O.range), k), thr)>> :
            k \in {j \in 0..Len(S.range) : GemmCompatible(S.range, O.range, j)}}

\* dst = a.scale(f), a.block(lo, hi, f), a.add(b, f), a.mult(b, f) or
\* a.gemm(b, f, helper); neg is what the same call returns for -f
Factored(dst, a, b) ==
  /\ calls < MaxCalls
  /\ last.op = "init"
  /\ \E S \in {Operand(heap, shapes[a])} : \E O \in {Operand(heap, shapes[b])} :
       \E f \in Factors : \E call \in FactorCalls(S, O, f, threshold_) :
         ReturnCall(dst, call[2],
                    [op |-> "factor", call |-> call[1], dst |-> dst, self |-> S,
                     other |-> O, factor |-> f, neg |-> call[3]])

NextB ==
  \/ \E a, b \in Slots : Binary(a, a, b)
  \/ \E a, b \in Slots : Factored(a, a, b)

SpecB == InitB /\ [][NextB]_vars

---------------------------------------------------------------------------
(* Two contractions in a row, in both orders *)

\* the matrix tilings of the contracted shapes
GRanges ==
  {<<<<1>>, <<1>>>>, <<<<1>>, <<1, 1>>>>, <<<<1, 1>>, <<1>>>>,
   <<<<1>>, <<1, 4>>>>, <<<<1, 4>>, <<1>>>>}

\* the raw norms of the contracted shapes
GRawNorms == {0, 1, 4}

GRaws(tr, thr) ==
  {raw \in [1..Volume(Extents(tr)) -> GRawNorms] :
     /\ NormalizeExact(raw, tr)
     /\ Bounded(normalize(raw, tr, thr))}

\* the state after  threshold(t0); x = SparseShape(..); y = SparseShape(..);
\* threshold(t1), for two matrices that can be contracted
InitG ==
  /\ \E t0, t1 \in Thresholds :
       /\ threshold_ = t1
       /\ history = IF t1 = t0 THEN <<t0>> ELSE <<t0, t1>>
       /\ \E trx, try \in GRanges : \E rawx \in GRaws(trx, t0) : \E rawy \in GRaws(try, t0) :
            \E X \in {normalize(rawx, trx, t0)} : \E Y \in {normalize(rawy, try, t0)} :
              /\ GemmCompatible(X.range, Y.range, 1)
              /\ shapes = [s \in Slots |->
                             IF s = "x"
                             THEN SparseShape(1, X.range, X.size_vectors, X.zero_tile_count)
                             ELSE SparseShape(2, Y.range, Y.size_vectors, Y.zero_tile_count)]
              /\ heap = [b \in BufIds |-> IF b = 1 THEN X.norms ELSE Y.norms]
  /\ last = [op |-> "init", dst |-> "none"]
  /\ calls = 0

\* c = SparseShape(raw, trange); dst = (a.gemm(b)).gemm(c), with factor 1;
\* ab and bc are a.gemm(b) and b.gemm(c), right is a.gemm(b.gemm(c)), and
\* ab_sum and bc_sum are the sums the two inner contractions formed
GemmTwice(dst, a, b) ==
  /\ calls < MaxCalls
  /\ last.op = "init"
  /\ \E A \in {Operand(heap, shapes[a])} : \E B \in {Operand(heap, shapes[b])} :
     \E h \in {GemmHelper(2, 2, 1)} :
       /\ GemmCompatible(A.range, B.range, 1)
       /\ \E trc \in GRanges : \E rawc \in GRaws(trc, threshold_) :
          \E C \in {normalize(rawc, trc, threshold_)} :
            /\ GemmCompatible(B.range, C.range, 1)
            /\ \E ab \in {gemm(A, B, 1, h, threshold_)} :
               \E bc \in {gemm(B, C, 1, h, threshold_)} :
                 ReturnCall(dst, gemm(ab, C, 1, h, threshold_),
                            [op |-> "gemm", dst |-> dst, A |-> A, B |-> B, C |-> C,
                             ab |-> ab, bc |-> bc,
                             ab_sum |-> gemm(A, B, 1, h, 0).norms,
                             bc_sum |-> gemm(B, C, 1, h, 0).norms,
                             right |-> gemm(A, bc, 1, h, threshold_)])

\* InitG draws x and y from the same inputs, so x.gemm(y) covers every pair
NextG ==
  GemmTwice("x", "x", "y")

SpecG == InitG /\ [][NextG]_vars

---------------------------------------------------------------------------
(* One contraction, with its arguments on record *)

\* the largest norm a contraction may return: one product of two norms that
\* are not 0, both weighted by an inner tile of extent 4
MaxGemmNorm == 16

\* dst = a.gemm(b, factor, helper) for a contraction over the last k_rank
\* dimensions of a and the first k_rank of b
Contract(dst, a, b) ==
  /\ calls < MaxCalls
  /\ last.op = "init"
  /\ \E L \in {Operand(heap, shapes[a])} : \E R \in {Operand(heap, shapes[b])} :
     \E factor \in Factors :
     \E k_rank \in {j \in 0..Len(L.range) : GemmCompatible(L.range, R.range, j)} :
     \E v \in {gemm(L, R, factor, GemmHelper(Len(L.range), Len(R.range), k_rank),
                    threshold_)} :
     \E buf \in {FreshBuf(shapes, dst)} :
       /\ \A i \in 1..Len(v.norms) : v.norms[i] <= MaxGemmNorm
       /\ shapes' = [shapes EXCEPT ![dst] =
                       SparseShape(buf, v.range, v.size_vectors, v.zero_tile_count)]
       /\ heap' = Collect([heap EXCEPT ![buf] = v.norms], shapes')
       /\ last' = [op |-> "contract", dst |-> dst, L |-> L, R |-> R,
                   factor |-> factor, k_rank |-> k_rank]
       /\ calls' = calls + 1
       /\ UNCHANGED <<threshold_, history>>

NextC ==
  \E dst \in Slots : Contract(dst, "x", "y")

SpecC == InitG /\ [][NextC]_vars

---------------------------------------------------------------------------
(* The collective constructor, run by two ranks of one world *)

\* Each slot is the object one rank constructs, in that rank's memory.  The
\* ranks run one program, so the threshold was set to the same value on both
\* before the constructor is called.  last keeps the constructor's arguments
\* and each rank's position in it:
\*   "start" -> "sum" (members initialized, before world.gop.sum)
\*           -> "normalize" (gop.sum has returned) -> "done"

\* the raw norms one rank hands to the collective constructor
WRawNorms == {0, 2, 4, 8}

\* world.gop.sum: the element-wise sum over the ranks of their data
AllReduceSum(raw, rank) ==
  [i \in 1..Len(raw[rank]) |-> raw["x"][i] + raw["y"][i]]

InitW ==
  /\ heap = [b \in BufIds |-> <<>>]
  /\ shapes = [s \in Slots |-> EmptyShape]
  /\ \E t0 \in Thresholds :
       /\ threshold_ = t0
       /\ history = IF t0 = Epsilon THEN <<>> ELSE <<t0>>
  /\ \E tr \in TRanges : \E raw \in [Slots -> [1..Volume(Extents(tr)) -> WRawNorms]] :
       /\ NormalizeExact(AllReduceSum(raw, "x"), tr)
       /\ Bounded(normalize(AllReduceSum(raw, "x"), tr, threshold_))
       /\ last = [op |-> "collective", dst |-> "none", trange |-> tr, raw |-> raw,
                  pc |-> [s \in Slots |-> "start"]]
  /\ calls = 0

\* the member initializers: tile_norms_(tile_norms.clone()),
\* size_vectors_(initialize_size_vectors(trange)), zero_tile_count_(0)
CollectiveEnter(rank) ==
  /\ last.pc[rank] = "start"
  /\ \E buf \in {IF rank = "x" THEN 1 ELSE 2} :
       /\ shapes' = [shapes EXCEPT ![rank] =
                       SparseShape(buf, Extents(last.trange), last.trange, 0)]
       /\ heap' = [heap EXCEPT ![buf] = last.raw[rank]]
  /\ last' = [last EXCEPT !.dst = rank, !.pc[rank] = "sum"]
  /\ UNCHANGED <<threshold_, calls, history>>

\* a variant of the constructor's second step without the all-reduce: the
\* rank goes on with its own data
CollectiveSum_own(rank) ==
  /\ last.pc[rank] = "sum"
  /\ last' = [last EXCEPT !.dst = rank, !.pc[rank] = "normalize"]
  /\ UNCHANGED <<heap, shapes, threshold_, calls, history>>

\* world.gop.sum(tile_norms_.data(), tile_norms_.size()) returns once every
\* rank has called it, with the sum in place of the rank's data
CollectiveSum(rank) ==
  /\ last.pc[rank] = "sum"
  /\ \A s \in Slots : last.pc[s] # "start"
  /\ heap' = [heap EXCEPT ![shapes[rank].tile_norms_.buf] = AllReduceSum(last.raw, rank)]
  /\ last' = [last EXCEPT !.dst = rank, !.pc[rank] = "normalize"]
  /\ UNCHANGED <<shapes, threshold_, calls, history>>

\* normalize(), on the rank's summed data
CollectiveNormalize(rank) ==
  /\ last.pc[rank] = "normalize"
  /\ \E v \in {normalize(data(heap, shapes[rank]), shapes[rank].size_vectors_, threshold_)} :
       /\ heap' = [heap EXCEPT ![shapes[rank].tile_norms_.buf] = v.norms]
       /\ shapes' = [shapes EXCEPT ![rank].zero_tile_count_ = v.zero_tile_count]
  /\ last' = [last EXCEPT !.dst = rank, !.pc[rank] = "done"]
  /\ calls' = calls + 1
  /\ UNCHANGED <<threshold_, history>>

NextW ==
  \/ \E rank \in Slots : CollectiveEnter(rank)
  \/ \E rank \in Slots : CollectiveSum(rank)
  \/ \E rank \in Slots : CollectiveNormalize(rank)

SpecW == InitW /\ [][NextW]_vars

---------------------------------------------------------------------------
(* The same call made twice, with other calls in between *)

\* the factors of the repeated calls
RFactors == {1, 2}

\* what the caller does between the two invocations:
\*   "none"            nothing
\*   "scale"           z = a.scale(2)
\*   "clone"           z = a.transform(op), op returning a new tensor
\*   "identity"        z = a.transform(op), op returning its argument
\*   "threshold"       threshold(thresh)
\*   "threshold_back"  threshold(thresh); threshold(<the value before>)
BetweenCalls ==
  {"none", "scale", "clone", "identity", "threshold", "threshold_back"}

\* a variant of the transform's effect in which every op returns its argument
TransformEffect_inplace(fn, norms, thr) == apply_threshold(norms, thr).norms

\* the norm data of a after z = a.transform(op): transform thresholds in place
\* the tensor op returned, which for an op returning its argument is the
\* tensor of a
TransformEffect(fn, norms, thr) ==
  IF fn = "identity" THEN apply_threshold(norms, thr).norms ELSE norms

\* the binary and contraction calls: <<name, result>>
RepeatedCalls(S, O, f, thr) ==
  (IF S.range = O.range
   THEN {<<"add", add_factor(S, O, f, thr)>>, <<"mult", mult_factor(S, O, f, thr)>>,
         <<"mask", mask(S, O, thr)>>}
   ELSE {})
    \cup {<<"gemm", gemm(S, O, f, GemmHelper(Len(S.range), Len(O.range), k), thr)>> :
            k \in {j \in 0..Len(S.range) : GemmCompatible(S.range, O.range, j)}}

\* r1 = a.call(b, f); <the calls in between>; dst = a.call(b, f)
InvokeTwice(dst, a, b) ==
  /\ calls < MaxCalls
  /\ last.op = "init"
  /\ \E S \in {Operand(heap, shapes[a])} : \E O \in {Operand(heap, shapes[b])} :
     \E f \in RFactors : \E between \in BetweenCalls : \E thresh \in Thresholds :
     \E first \in RepeatedCalls(S, O, f, threshold_) :
       /\ (between \in {"threshold", "threshold_back"}) <=> (thresh # threshold_)
       /\ \A i \in 1..Len(first[2].norms) : first[2].norms[i] <= MaxNorm
       /\ \E thr \in {IF between = "threshold" THEN thresh ELSE threshold_} :
          \E S2 \in {[S EXCEPT !.norms =
                        IF between \in {"clone", "identity"}
                        THEN TransformEffect(between, S.norms, threshold_)
                        ELSE S.norms]} :
          \E second \in {c \in RepeatedCalls(S2, O, f, thr) : c[1] = first[1]
                           /\ c[2].range = first[2].range} :
          \E buf \in {FreshBuf(shapes, dst)} :
            /\ \A i \in 1..Len(second[2].norms) : second[2].norms[i] <= MaxNorm
            /\ threshold_' = thr
            /\ history' = CASE between = "threshold" -> Append(history, thresh)
                            [] between = "threshold_back" ->
                                 Append(Append(history, thresh), threshold_)
                            [] OTHER -> history
            /\ shapes' = [shapes EXCEPT ![dst] =
                            SparseShape(buf, second[2].range, second[2].size_vectors,
                                        second[2].zero_tile_count)]
            /\ heap' = Collect([[heap EXCEPT ![shapes[a].tile_norms_.buf] = S2.norms]
                                  EXCEPT ![buf] = second[2].norms], shapes')
            /\ last' = [op |-> "repeat", call |-> first[1], dst |-> dst, self |-> S,
                        other |-> O, factor |-> f, between |-> between,
                        first |-> first[2], before |-> threshold_]
            /\ calls' = calls + 1

NextR ==
  InvokeTwice("y", "x", "y")

SpecR == InitB /\ [][NextR]_vars

---------------------------------------------------------------------------
(* One kernel run by parallel workers, with the setter called meanwhile *)

\* the threads that run the per-tile function of Tensor::unary
Workers == {"w1", "w2"}

\* the tiling of the operand: three tiles of one dimension
KRange == <<<<1, 1, 4>>>>

\* the factors handed to scale
KFactors == {0 - 1, 1, 2}

\* the state after  threshold(t0); x = SparseShape(raw, trange)
InitK ==
  /\ \E t0 \in Thresholds :
       /\ threshold_ = t0
       /\ history = IF t0 = Epsilon THEN <<>> ELSE <<t0>>
       /\ \E raw \in Raws(KRange, t0) : \E X \in {normalize(raw, KRange, t0)} :
            /\ shapes = [s \in Slots |->
                           IF s = "x"
                           THEN SparseShape(1, X.range, X.size_vectors, X.zero_tile_count)
                           ELSE EmptyShape]
            /\ heap = [b \in BufIds |-> IF b = 1 THEN X.norms ELSE <<>>]
  /\ last = [op |-> "init", dst |-> "none"]
  /\ calls = 0

\* the value the per-tile function computes for tile i: value *= abs_factor
KernelValue(i) == last.self.norms[i] * last.abs_factor

\* a variant of the per-tile test that reads the static member at each tile
KernelThreshold_static == threshold_

\* the threshold the per-tile function captured by value
KernelThreshold == last.threshold

\* dst = a.scale(factor) begins: the assertion, the one read of threshold_,
\* abs_factor, and the counter set to 0
KernelStart(dst, a, factor) ==
  /\ calls < MaxCalls
  /\ last.op = "init"
  /\ ~empty(shapes[a])
  /\ \E S \in {Operand(heap, shapes[a])} :
       /\ \A i \in 1..Len(S.norms) : S.norms[i] * to_abs_factor(factor) <= MaxNorm
       /\ last' = [op |-> "kernel", dst |-> dst, self |-> S, factor |-> factor,
                   threshold |-> threshold_, abs_factor |-> to_abs_factor(factor),
                   zero_tile_count |-> 0,
                   result |-> [i \in 1..Len(S.norms) |-> 0 - 1],
                   todo |-> 1..Len(S.norms),
                   pc |-> [w \in Workers |-> "idle"], at |-> [w \in Workers |-> 0],
                   overlap |-> FALSE, during |-> FALSE, phase |-> "run"]
  /\ calls' = calls + 1
  /\ UNCHANGED <<heap, shapes, threshold_, history>>

\* worker w takes a tile, multiplies, and compares with the threshold: a value
\* not below it is returned as it is
KernelTest(w) ==
  /\ last.op = "kernel"
  /\ last.phase = "run"
  /\ last.pc[w] = "idle"
  /\ \E i \in last.todo :
       IF KernelValue(i) < KernelThreshold
       THEN last' = [last EXCEPT !.todo = @ \ {i}, !.pc[w] = "count", !.at[w] = i,
                                 !.overlap = @ \/ \E u \in Workers \ {w} : last.pc[u] = "count"]
       ELSE last' = [last EXCEPT !.todo = @ \ {i}, !.result[i] = KernelValue(i)]
  /\ UNCHANGED <<heap, shapes, threshold_, calls, history>>

\* a variant of the increment as a load and a store that are two steps: of
\* two workers that increment at the same time, one increment is lost
KernelCount_lost(w) ==
  /\ last.op = "kernel"
  /\ last.phase = "run"
  /\ last.pc[w] = "count"
  /\ last' = [last EXCEPT !.zero_tile_count = @ + 1,
                          !.result = [i \in DOMAIN @ |->
                                        IF \E u \in Workers : last.pc[u] = "count" /\ last.at[u] = i
                                        THEN 0 ELSE @[i]],
                          !.pc = [u \in Workers |-> "idle"],
                          !.at = [u \in Workers |-> 0]]
  /\ UNCHANGED <<heap, shapes, threshold_, calls, history>>

\* value = 0; ++zero_tile_count; return value: the increment of the
\* madness::AtomicInt is one step
KernelCount(w) ==
  /\ last.op = "kernel"
  /\ last.phase = "run"
  /\ last.pc[w] = "count"
  /\ last' = [last EXCEPT !.zero_tile_count = @ + 1, !.result[last.at[w]] = 0,
                          !.pc[w] = "idle", !.at[w] = 0]
  /\ UNCHANGED <<heap, shapes, threshold_, calls, history>>

\* another thread calls SparseShape::threshold(thresh) while the kernel runs
KernelSetThreshold(thresh) ==
  /\ calls < MaxCalls
  /\ last.op = "kernel"
  /\ last.phase = "run"
  /\ thresh # threshold_
  /\ threshold_' = thresh
  /\ history' = Append(history, thresh)
  /\ last' = [last EXCEPT !.during = TRUE]
  /\ calls' = calls + 1
  /\ UNCHANGED <<heap, shapes>>

\* every tile is done: return SparseShape_(result_tile_norms, size_vectors_,
\* zero_tile_count)
KernelFinish ==
  /\ last.op = "kernel"
  /\ last.phase = "run"
  /\ last.todo = {}
  /\ \A w \in Workers : last.pc[w] = "idle"
  /\ \E b \in {FreshBuf(shapes, last.dst)} :
       /\ shapes' = [shapes EXCEPT ![last.dst] =
                       SparseShape(b, last.self.range, last.self.size_vectors,
                                   last.zero_tile_count)]
       /\ heap' = Collect([heap EXCEPT ![b] = last.result], shapes')
  /\ last' = [last EXCEPT !.phase = "done"]
  /\ UNCHANGED <<threshold_, calls, history>>

NextK ==
  \/ \E factor \in KFactors : KernelStart("y", "x", factor)
  \/ \E w \in Workers : KernelTest(w)
  \/ \E w \in Workers : KernelCount(w)
  \/ \E thresh \in Thresholds : KernelSetThreshold(thresh)
  \/ KernelFinish

SpecK == InitK /\ [][NextK]_vars

---------------------------------------------------------------------------
(* The permuting overloads, with the two-step result on record *)

\* the tilings of the permuted shapes: two by two tiles, and two by one
PRanges == {<<<<1, 4>>, <<1, 1>>>>, <<<<1, 4>>, <<4>>>>}

\* the raw norms of the permuted shapes
PRawNorms == {0, 2, 4, 8}

\* the factors of the permuting calls
PFactors == {0 - 1, 2}

PRaws(tr, thr) ==
  {raw \in [1..Volume(Extents(tr)) -> PRawNorms] :
     /\ NormalizeExact(raw, tr)
     /\ Bounded(normalize(raw, tr, thr))}

\* the state after  threshold(t0); x = SparseShape(..); y = SparseShape(..)
\* over the same tiling
InitP ==
  /\ \E t0 \in Thresholds :
       /\ threshold_ = t0
       /\ history = IF t0 = Epsilon THEN <<>> ELSE <<t0>>
       /\ \E tr \in PRanges : \E rawx \in PRaws(tr, t0) : \E rawy \in PRaws(tr, t0) :
            \E X \in {normalize(rawx, tr, t0)} : \E Y \in {normalize(rawy, tr, t0)} :
              /\ shapes = [s \in Slots |->
                             IF s = "x"
                             THEN SparseShape(1, X.range, X.size_vectors, X.zero_tile_count)
                             ELSE SparseShape(2, Y.range, Y.size_vectors, Y.zero_tile_count)]
              /\ heap = [b \in BufIds |-> IF b = 1 THEN X.norms ELSE Y.norms]
  /\ last = [op |-> "init", dst |-> "none"]
  /\ calls = 0

\* the permuting calls and their counterparts without a permutation:
\* <<name, op(.., perm), op(..)>>
PermutingCalls(S, O, f, p, thr) ==
  {<<"scale", scale_perm(S, f, p, thr), scale(S, f, thr)>>,
   <<"add", add_factor_perm(S, O, f, p, thr), add_factor(S, O, f, thr)>>,
   <<"mult", mult_factor_perm(S, O, f, p, thr), mult_factor(S, O, f, thr)>>}
    \cup (IF GemmCompatible(S.range, O.range, 1)
          THEN {<<"gemm", gemm_perm(S, O, f, GemmHelper(2, 2, 1), p, thr),
                  gemm(S, O, f, GemmHelper(2, 2, 1), thr)>>}
          ELSE {})

\* dst = a.scale(f, p), a.add(b, f, p), a.mult(b, f, p) or
\* a.gemm(b, f, helper, p); plain is what the call without p returns and
\* then is plain.perm(p)
Permuting(dst, a, b) ==
  /\ calls < MaxCalls
  /\ last.op = "init"
  /\ \E S \in {Operand(heap, shapes[a])} : \E O \in {Operand(heap, shapes[b])} :
       \E f \in PFactors : \E p \in Perms(Len(S.range)) :
         \E call \in PermutingCalls(S, O, f, p, threshold_) :
           ReturnCall(dst, call[2],
                      [op |-> "permuting", call |-> call[1], dst |-> dst, self |-> S,
                       other |-> O, factor |-> f, p |-> p, plain |-> call[3],
                       then |-> perm(call[3], p)])

NextP ==
  \E dst \in Slots : Permuting(dst, "x", "y")

SpecP == InitP /\ [][NextP]_vars

---------------------------------------------------------------------------
(* BinaryTiledTensor: the zero query and the generation of tile tasks *)

\* the tile indices of the tensors
TTiles == {1, 2}

\* the element operations: std::plus, std::minus, std::multiplies
Ops == {"plus", "minus", "multiplies"}

\* shape_select<Op>::is_zero(l, r)
shape_select(Op, l, r) == IF Op = "multiplies" THEN l \/ r ELSE l /\ r

\* BinaryTiledTensorImpl::is_zero(arg, i), the private overload: an argument
\* is [dense, zero, present], with zero[i] what arg.is_zero(i) answers and
\* present the tiles arg.begin() .. arg.end() visit
arg_is_zero(arg, i) == IF arg.dense THEN FALSE ELSE arg.zero[i]

\* BinaryTiledTensorImpl::is_dense
is_dense(T) == T.left.dense \/ T.right.dense

\* a variant of the zero query without the test for a dense tensor
tensor_is_zero_sparse(T, i) ==
  shape_select(T.Op, T.left.zero[i], T.right.zero[i])

\* BinaryTiledTensorImpl::is_zero(i)
tensor_is_zero(T, i) ==
  IF is_dense(T) THEN FALSE
  ELSE shape_select(T.Op, arg_is_zero(T.left, i), arg_is_zero(T.right, i))

\* an array argument: dense, with every tile stored and none zero, or sparse,
\* with the tiles stored that are not zero
LeafArgs ==
  {[dense |-> TRUE, zero |-> [i \in TTiles |-> FALSE], present |-> TTiles]}
    \cup {[dense |-> FALSE, zero |-> z, present |-> {i \in TTiles : ~z[i]}] :
            z \in [TTiles -> BOOLEAN]}

\* a BinaryTiledTensor as an argument, after its eval: data_ holds the tiles
\* its EvalLeft and EvalRight set, and is_zero and is_dense are its own
Evaluated(L, R, Op) ==
  [dense |-> is_dense([left |-> L, right |-> R, Op |-> Op]),
   zero |-> [i \in TTiles |-> tensor_is_zero([left |-> L, right |-> R, Op |-> Op], i)],
   present |-> L.present \cup {i \in R.present : L.zero[i]}]

\* the arguments of the model: arrays, and binary expressions of arrays
TArgs ==
  LeafArgs \cup {Evaluated(L, R, Op) : L \in LeafArgs, R \in LeafArgs, Op \in Ops}

\* the state after BinaryTiledTensor(left, right, op) and eval(v, pmap): the
\* evaluations of the two arguments are under way, and generate_tasks is a
\* task that waits for their futures
InitT ==
  /\ heap = [b \in BufIds |-> <<>>]
  /\ shapes = [s \in Slots |-> EmptyShape]
  /\ threshold_ = Epsilon
  /\ history = <<>>
  /\ calls = 0
  /\ \E L \in TArgs : \E R \in TArgs : \E Op \in Ops :
       last = [op |-> "tensor", dst |-> "none",
               T |-> [left |-> L, right |-> R, Op |-> Op],
               left_done |-> FALSE, right_done |-> FALSE, phase |-> "args",
               ltodo |-> {}, rtodo |-> {},
               sets |-> [i \in TTiles |-> 0],
               answer |-> [i \in TTiles |-> "none"], dest |-> {}]

\* the future of left_.eval(v, pmap) is set
EvalArgLeft ==
  /\ last.op = "tensor"
  /\ ~last.left_done
  /\ last' = [last EXCEPT !.left_done = TRUE]
  /\ UNCHANGED <<heap, shapes, threshold_, calls, history>>

\* the future of right_.eval(v, pmap) is set
EvalArgRight ==
  /\ last.op = "tensor"
  /\ ~last.right_done
  /\ last' = [last EXCEPT !.right_done = TRUE]
  /\ UNCHANGED <<heap, shapes, threshold_, calls, history>>

\* a variant of generate_tiles whose task does not take the two futures
GenerateTasks_early ==
  /\ last.op = "tensor"
  /\ last.phase = "args"
  /\ last' = [last EXCEPT !.phase = "for_each", !.ltodo = last.T.left.present,
                          !.rtodo = last.T.right.present]
  /\ UNCHANGED <<heap, shapes, threshold_, calls, history>>

\* generate_tasks starts once both futures are set, and hands the tiles of
\* the two arguments to the two for_each passes
GenerateTasks ==
  /\ last.op = "tensor"
  /\ last.phase = "args"
  /\ last.left_done
  /\ last.right_done
  /\ last' = [last EXCEPT !.phase = "for_each", !.ltodo = last.T.left.present,
                          !.rtodo = last.T.right.present]
  /\ UNCHANGED <<heap, shapes, threshold_, calls, history>>

\* EvalLeft::operator() on tile i of the left argument: either branch sets
\* data_[i]
EvalLeft(i) ==
  /\ last.op = "tensor"
  /\ last.phase = "for_each"
  /\ i \in last.ltodo
  /\ last' = [last EXCEPT !.ltodo = @ \ {i}, !.sets[i] = @ + 1]
  /\ UNCHANGED <<heap, shapes, threshold_, calls, history>>

\* EvalRight::operator() on tile i of the right argument: data_[i] is set
\* when left_.is_zero(i)
EvalRight(i) ==
  /\ last.op = "tensor"
  /\ last.phase = "for_each"
  /\ i \in last.rtodo
  /\ last' = [last EXCEPT !.rtodo = @ \ {i},
                          !.sets[i] = IF last.T.left.zero[i] THEN @ + 1 ELSE @]
  /\ UNCHANGED <<heap, shapes, threshold_, calls, history>>

\* return left_done.get() && right_done.get()
GenerateTasksReturn ==
  /\ last.op = "tensor"
  /\ last.phase = "for_each"
  /\ last.ltodo = {}
  /\ last.rtodo = {}
  /\ last' = [last EXCEPT !.phase = "done"]
  /\ UNCHANGED <<heap, shapes, threshold_, calls, history>>

\* is_zero(i), asked at any time
QueryIsZero(i) ==
  /\ last.op = "tensor"
  /\ last.answer[i] = "none"
  /\ last' = [last EXCEPT !.answer[i] = IF tensor_is_zero(last.T, i) THEN "zero" ELSE "tile"]
  /\ UNCHANGED <<heap, shapes, threshold_, calls, history>>

\* eval_to(dest): the tiles that are not zero are moved to dest
EvalTo ==
  /\ last.op = "tensor"
  /\ last.phase = "done"
  /\ last' = [last EXCEPT !.phase = "evaluated",
                          !.dest = {i \in TTiles : ~tensor_is_zero(last.T, i)}]
  /\ UNCHANGED <<heap, shapes, threshold_, calls, history>>

NextT ==
  \/ EvalArgLeft
  \/ EvalArgRight
  \/ GenerateTasks
  \/ \E i \in TTiles : EvalLeft(i)
  \/ \E i \in TTiles : EvalRight(i)
  \/ GenerateTasksReturn
  \/ \E i \in TTiles : QueryIsZero(i)
  \/ EvalTo

SpecT == InitT /\ [][NextT]_vars

---------------------------------------------------------------------------
(* Calls with a default-constructed shape as an operand *)

\* the operations that start with TA_ASSERT(! tile_norms_.empty())
AssertsReceiver == {"scale", "add", "subt", "mult", "mask", "gemm"}

\* the operations that use the receiver's tensor without such an assertion
UncheckedReceiver == {"perm", "block", "update_block"}

\* the binary operations that assert that the other shape is not empty
AssertsOther == {"mask"}

\* the binary operations that hand other.tile_norms_ to the tensor unchecked
UncheckedOther == {"add", "subt", "mult", "gemm", "update_block"}

\* the state after a call that threw: no object has changed
Failure(dst, op, by) ==
  /\ last' = [op |-> "failure", call |-> op, dst |-> dst, by |-> by, on |-> "empty"]
  /\ calls' = calls + 1
  /\ UNCHANGED <<heap, shapes, threshold_, history>>

\* dst = a.op(b, ...) with a or b empty, stopped by a TA_ASSERT of the shape
AssertFails(dst, a, b) ==
  /\ calls < MaxCalls
  /\ \E op \in AssertsReceiver \cup AssertsOther :
       /\ \/ op \in AssertsReceiver /\ empty(shapes[a])
          \/ op \in AssertsOther /\ ~empty(shapes[a]) /\ empty(shapes[b])
       /\ Failure(dst, op, "TA_ASSERT")

\* dst = a.op(b, ...) with a or b empty, where the empty tensor reaches a
\* Tensor operation (permute, block, clone, binary, inplace_binary, gemm)
TensorFails(dst, a, b) ==
  /\ calls < MaxCalls
  /\ \E op \in UncheckedReceiver \cup UncheckedOther :
       /\ \/ op \in UncheckedReceiver /\ empty(shapes[a])
          \/ op \in UncheckedOther /\ ~empty(shapes[a]) /\ empty(shapes[b])
       /\ Failure(dst, op, "Tensor")

\* dst = a.transform(op) with a empty: op is handed the empty tensor, the
\* threshold pass runs over the zero elements of what op returned, and the
\* private constructor is called with it
TransformEmpty(dst, a) ==
  /\ calls < MaxCalls
  /\ empty(shapes[a])
  /\ \E op \in TransformOps :
       /\ shapes' = [shapes EXCEPT ![dst] =
                       SparseShape(0, <<>>, shapes[a].size_vectors_, 0)]
       /\ heap' = Collect(heap, shapes')
       /\ last' = [op |-> "transform", dst |-> dst, fn |-> op, on |-> "empty"]
       /\ calls' = calls + 1
       /\ UNCHANGED <<threshold_, history>>

NextE ==
  \/ \E dst \in Slots : Construct(dst)
  \/ \E dst, a, b \in Slots : AssertFails(dst, a, b)
  \/ \E dst, a, b \in Slots : TensorFails(dst, a, b)
  \/ \E dst, a \in Slots : TransformEmpty(dst, a)

SpecE == Init /\ [][NextE]_vars

---------------------------------------------------------------------------
(* Properties of the shapes the calls reach *)

\* the names `last` gives to the algebraic operations
AlgOps ==
  {"scale", "perm", "add", "subt", "mult", "mask", "transform", "block",
   "update_block", "gemm"}

\* the operations that write norms through a threshold test
ScreeningOps == (AlgOps \ {"perm"}) \cup {"SparseShape"}

\* what a caller can observe of a shape object
View(h, sh) ==
  [norms |-> data(h, sh), range |-> sh.tile_norms_.range,
   size_vectors |-> sh.size_vectors_, zero_tile_count |-> sh.zero_tile_count_]

\* the lowest threshold in force so far
Lowest ==
  CHOOSE t \in {Epsilon} \cup {history[i] : i \in 1..Len(history)} :
    \A u \in {Epsilon} \cup {history[i] : i \in 1..Len(history)} : t <= u

\* the shape objects that are initialized
Initialized == {s \in Slots : ~empty(shapes[s])}

\* C1 (as claimed): in every reachable state the cached zero_tile_count_ of
\* every shape equals the number of its tiles whose stored norm is exactly 0.
C1_CountEqualsExactZeros ==
  \A s \in Initialized :
    shapes[s].zero_tile_count_ = CountZero(data(heap, shapes[s]))

\* C2 (as claimed): for every initialized shape and tile, in every reachable
\* state, threshold setter calls included, the norm is >= 0 and it is 0
\* exactly when is_zero returns true.
C2_ZeroIffIsZero ==
  \A s \in Initialized : \A t \in Tiles(shapes[s]) :
    /\ norm(heap, shapes[s], t) >= 0
    /\ (norm(heap, shapes[s], t) = 0) <=> is_zero(heap, shapes[s], t, threshold_)

\* C2 (amended): every norm is >= 0; while the threshold is positive a norm
\* of 0 is reported zero by is_zero; and while the threshold in force is the
\* lowest one so far (the setter has not raised it above an earlier value),
\* is_zero reports only norms that are exactly 0.
C2_ZeroIffIsZeroUnlessRaised ==
  \A s \in Initialized : \A t \in Tiles(shapes[s]) :
    /\ norm(heap, shapes[s], t) >= 0
    /\ (threshold_ > 0 /\ norm(heap, shapes[s], t) = 0)
         => is_zero(heap, shapes[s], t, threshold_)
    /\ (threshold_ = Lowest /\ is_zero(heap, shapes[s], t, threshold_))
         => norm(heap, shapes[s], t) = 0

\* C2 witness: the setter has been called, the threshold in force is positive
\* and the lowest so far, and a shape holds a zero tile and a non-zero tile.
C2_Witness ==
  /\ history # <<>>
  /\ threshold_ > 0
  /\ threshold_ = Lowest
  /\ \E s \in Initialized : \E t, u \in Tiles(shapes[s]) :
       /\ is_zero(heap, shapes[s], t, threshold_)
       /\ ~is_zero(heap, shapes[s], u, threshold_)

\* C3 (as claimed): in every reachable state zero_tile_count_ equals the
\* number of tiles for which is_zero returns true.
C3_CountEqualsIsZeroTiles ==
  \A s \in Initialized :
    shapes[s].zero_tile_count_
      = Cardinality({t \in Tiles(shapes[s]) : is_zero(heap, shapes[s], t, threshold_)})

\* C4 (as claimed): a shape returned by the constructor, scale, add, mult,
\* gemm, transform, mask, block or update_block holds no norm v with
\* 0 < v < the threshold in force when the operation ran.
C4_ResultZeroOrAtLeastThreshold ==
  (last.op \in ScreeningOps) =>
    \A t \in Tiles(shapes[last.dst]) :
      \/ norm(heap, shapes[last.dst], t) = 0
      \/ norm(heap, shapes[last.dst], t) >= threshold_

\* the cells of the sub-block update_block last wrote
UpdatedCells ==
  {i \in Tiles(shapes[last.self]) :
     InBlock(Coord(i - 1, shapes[last.self].tile_norms_.range), last.lower, last.upper)}

\* the norm update_block last copied over cell i
NewNorm(i) ==
  UpdateSource(Operand(heap, shapes[last.self]), last.lower, last.upper, last.other, i)

\* C5 (as claimed): the count update_block returns is the count of the shape
\* it is called on, plus 1 for each cell of the sub-block whose old norm is
\* >= threshold and whose new norm is < threshold, minus 1 for each cell whose
\* old norm is < threshold and whose new norm is >= threshold.
C5_CountStepsAsClaimed ==
  (last.op = "update_block") =>
    shapes[last.dst].zero_tile_count_
      = shapes[last.self].zero_tile_count_
          + Cardinality({i \in UpdatedCells :
                           norm(heap, shapes[last.self], i) >= threshold_
                             /\ NewNorm(i) < threshold_})
          - Cardinality({i \in UpdatedCells :
                           norm(heap, shapes[last.self], i) < threshold_
                             /\ NewNorm(i) >= threshold_})

\* the call of the example: norms [2,0,0,2,2] with count 2, T = [1,0],
\* update_block([1], [3], T)
ExampleCall ==
  /\ last.op = "update_block"
  /\ data(heap, shapes[last.self]) = <<2, 0, 0, 2, 2>>
  /\ shapes[last.self].zero_tile_count_ = 2
  /\ last.other.norms = <<1, 0>>
  /\ last.lower = <<1>>
  /\ last.upper = <<3>>

C7_UpdateWithOwnBlock ==
  (last.op = "update_block" /\ last.arg = "block") =>
    View(heap, shapes[last.dst]) = View(heap, shapes[last.self])

\* C7 witness: a shape has been updated with its own block, the block being a
\* proper part of the shape and holding a norm below the threshold in force
\* that is not 0 and a norm that is not below it.
C7_Witness ==
  /\ last.op = "update_block"
  /\ last.arg = "block"
  /\ UpdatedCells # Tiles(shapes[last.self])
  /\ \E i, j \in UpdatedCells :
       /\ 0 < norm(heap, shapes[last.self], i)
       /\ norm(heap, shapes[last.self], i) < threshold_
       /\ norm(heap, shapes[last.self], j) >= threshold_

\* C8 (as claimed): no algebraic operation changes the norms, the size
\* vectors or the count of a shape object other than the one its result is
\* assigned to.
C8_OperandsUnchanged ==
  [][(last'.op \in AlgOps) =>
       \A s \in Slots \ {last'.dst} : View(heap', shapes'[s]) = View(heap, shapes[s])]_vars

\* C9: a call of the threshold setter leaves the norms, size vectors and
\* count of every existing shape as they were, and until the first such call
\* the threshold is machine epsilon.
C9_SetterChangesOnlyThreshold ==
  /\ [][(last'.op = "threshold") =>
          \A s \in Slots : View(heap', shapes'[s]) = View(heap, shapes[s])]_vars
  /\ [](history = <<>> => threshold_ = Epsilon)

\* C9 witness: the setter has just raised the threshold above a non-zero
\* norm of an existing shape.
C9_Witness ==
  /\ last.op = "threshold"
  /\ \E s \in Initialized : \E t \in Tiles(shapes[s]) :
       0 < norm(heap, shapes[s], t) /\ norm(heap, shapes[s], t) < threshold_

\* C10 (as claimed): the result of every algebraic operation, transform with
\* any op included, is initialized, and no call takes an initialized shape
\* object back to empty.
C10_NeverBackToEmpty ==
  [][/\ (last'.op \in AlgOps) => ~empty(shapes'[last'.dst])
     /\ \A s \in Slots : ~empty(shapes[s]) => ~empty(shapes'[s])]_vars

\* does `last` describe a transform whose op returned an empty tensor
EmptyTransform(l) == l.op = "transform" /\ l.fn = "empty"

\* C10 (amended): the result of every algebraic operation on initialized
\* operands is initialized unless it is a transform whose op returned an
\* empty tensor, and an initialized shape object becomes empty only by being
\* assigned an empty shape: by operator= or as the target of such a transform.
C10_EmptyOnlyByAssignment ==
  [][/\ (last'.op \in AlgOps /\ ~EmptyTransform(last')) => ~empty(shapes'[last'.dst])
     /\ \A s \in Slots :
          (~empty(shapes[s]) /\ empty(shapes'[s]))
            => /\ last'.dst = s
               /\ (last'.op = "operator=" \/ EmptyTransform(last'))]_vars

\* C10 witness: a transform whose op returned its argument has produced an
\* initialized shape while another object is still empty.
C10_Witness ==
  /\ last.op = "transform"
  /\ last.fn = "identity"
  /\ ~empty(shapes[last.dst])
  /\ \E s \in Slots : empty(shapes[s])

\* C11 (as claimed): every algebraic operation called with an empty shape as
\* the receiver or as the other operand ends in a contract failure and returns
\* no shape.
C11_EmptyOperandFails ==
  ("on" \in DOMAIN last) => last.op = "failure"

\* C12: S.perm(p).perm(p^-1) has the norms and the size vectors of S; perm
\* puts the size vector of dimension i at position p[i], whose length is the
\* extent of the permuted norms there, and leaves zero_tile_count as it is.
C12_PermRoundTrip ==
  (last.op = "perm") =>
    LET S == View(heap, shapes[last.self])
        R == View(heap, shapes[last.dst])
    IN /\ R.norms = S.norms
       /\ R.range = S.range
       /\ R.size_vectors = S.size_vectors
       /\ \A i \in 1..Len(last.p) :
            /\ last.mid.size_vectors[last.p[i]] = S.size_vectors[i]
            /\ last.mid.range[last.p[i]] = Len(S.size_vectors[i])
       /\ last.mid.zero_tile_count = S.zero_tile_count
       /\ R.zero_tile_count = S.zero_tile_count

\* C12 witness: a rank-3 shape with a zero and a non-zero norm has gone
\* through a permutation that is not its own inverse, which moved its norms.
C12_Witness ==
  /\ last.op = "perm"
  /\ Len(last.p) = 3
  /\ Inverse(last.p) # last.p
  /\ last.mid.norms # data(heap, shapes[last.self])
  /\ shapes[last.self].zero_tile_count_ > 0
  /\ shapes[last.self].zero_tile_count_ < Volume(shapes[last.self].tile_norms_.range)

\* the tiles of the last scale(a).scale(b) whose intermediate value was
\* zeroed although the value scaled by |a| * |b| is not below the threshold
ZeroedOnTheWay ==
  {t \in Tiles(shapes[last.self]) :
     /\ norm(heap, shapes[last.self], t) * Abs(last.a) < threshold_
     /\ norm(heap, shapes[last.self], t) * Abs(last.a) * Abs(last.b) >= threshold_}

\* C13 (as claimed): S.scale(a).scale(b) equals S.scale(|a| * |b|) on every
\* tile but those whose intermediate value is zeroed while the final one is
\* not below the threshold, and S.scale(1) equals S.
C13_ScaleTwiceAndScaleOne ==
  (last.op = "scale") =>
    /\ \A t \in Tiles(shapes[last.self]) \ ZeroedOnTheWay :
         norm(heap, shapes[last.dst], t) = last.once.norms[t]
    /\ (Abs(last.a) * Abs(last.b) = 1) => last.once = View(heap, shapes[last.self])

\* C13 (amended): S.scale(a).scale(b) equals S.scale(|a| * |b|) on every tile
\* but those whose intermediate value is zeroed while the final one is not
\* below the threshold; S.scale(1) has the size vectors of S, the norms of S
\* with those below the threshold in force replaced by 0, and as its count
\* the number of norms of S below that threshold; so its norms are those of
\* S when S holds no non-zero norm below the threshold.
C13_ScaleTwiceAndScaleOneScreens ==
  (last.op = "scale") =>
    /\ \A t \in Tiles(shapes[last.self]) \ ZeroedOnTheWay :
         norm(heap, shapes[last.dst], t) = last.once.norms[t]
    /\ (Abs(last.a) * Abs(last.b) = 1) =>
         LET S == View(heap, shapes[last.self])
         IN /\ last.once.size_vectors = S.size_vectors
            /\ last.once.range = S.range
            /\ \A t \in Tiles(shapes[last.self]) :
                 last.once.norms[t] = IF S.norms[t] < threshold_ THEN 0 ELSE S.norms[t]
            /\ last.once.zero_tile_count = CountBelow(S.norms, threshold_)
            /\ (\A t \in Tiles(shapes[last.self]) :
                  S.norms[t] = 0 \/ S.norms[t] >= threshold_)
                 => last.once.norms = S.norms

\* C13 witness: two scalings by factors other than 0 of a shape with a tile
\* zeroed on the way and a tile that is not zeroed at all.
C13_Witness ==
  /\ last.op = "scale"
  /\ last.a # 0
  /\ last.b # 0
  /\ ZeroedOnTheWay # {}
  /\ \E t \in Tiles(shapes[last.dst]) : norm(heap, shapes[last.dst], t) > 0

\* C14: scale(f), block(lo, hi, f), add(B, f), mult(B, f) and
\* gemm(B, f, helper) return the same norms, size vectors and zero_tile_count
\* as the same call with -f.
C14_FactorByAbsoluteValue ==
  (last.op = "factor") => View(heap, shapes[last.dst]) = last.neg

\* C14 witness: a call with a negative factor has returned a shape with a
\* norm that is not 0.
C14_Witness ==
  /\ last.op = "factor"
  /\ last.factor < 0
  /\ \E t \in Tiles(shapes[last.dst]) : norm(heap, shapes[last.dst], t) > 0

\* C15: for S and T of equal ranges, every tile t with T.is_zero(t) has
\* S.mask(T).is_zero(t).
C15_MaskZeroWhereMaskIsZero ==
  (last.op = "mask") =>
    \A t \in Tiles(shapes[last.dst]) :
      (last.other.norms[t] < threshold_) =>
        is_zero(heap, shapes[last.dst], t, threshold_)

\* C15 witness: mask has returned a shape in which a tile that is not zero in
\* S is zero because it is zero in T.
C15_Witness ==
  /\ last.op = "mask"
  /\ \E t \in Tiles(shapes[last.dst]) :
       /\ last.other.norms[t] < threshold_
       /\ last.self.norms[t] >= threshold_
       /\ is_zero(heap, shapes[last.dst], t, threshold_)

\* C16 (as claimed): the norm of S.mask(M) at t is S[t] when S[t] >= threshold
\* and M[t] >= threshold, and exactly 0 otherwise.
C16_MaskNormAsClaimed ==
  (last.op = "mask") =>
    \A t \in Tiles(shapes[last.dst]) :
      norm(heap, shapes[last.dst], t) =
        IF last.self.norms[t] >= threshold_ /\ last.other.norms[t] >= threshold_
        THEN last.self.norms[t]
        ELSE 0

\* C17: S.block(lo, hi).block(0, hi - lo) equals S.block(lo, hi) in norms,
\* in size vectors (the [lo_d, hi_d) slice of each size vector of S) and in
\* zero_tile_count.
C17_BlockOfWholeBlock ==
  (last.op = "block") =>
    /\ View(heap, shapes[last.dst]) = last.mid
    /\ \A d \in 1..Len(last.lower) :
         shapes[last.dst].size_vectors_[d] =
           SubSeq(shapes[last.self].size_vectors_[d], last.lower[d] + 1, last.upper[d])

\* C17 witness: the block of a block has been taken of a sub-block that does
\* not start at 0, with a tile counted as zero and a tile that is not.
C17_Witness ==
  /\ last.op = "block"
  /\ \E d \in 1..Len(last.lower) : last.lower[d] > 0
  /\ shapes[last.dst].zero_tile_count_ > 0
  /\ \E t \in Tiles(shapes[last.dst]) : norm(heap, shapes[last.dst], t) > 0

\* C18 (as claimed): with factor 1, every tile norm of (A.gemm(B)).gemm(C)
\* differs from that of A.gemm(B.gemm(C)) by at most the threshold.
C18_GemmAssociativeWithinThreshold ==
  (last.op = "gemm") =>
    \A t \in Tiles(shapes[last.dst]) :
      Abs(norm(heap, shapes[last.dst], t) - last.right.norms[t]) <= threshold_

\* no tile of A.gemm(B) or of B.gemm(C) was replaced by 0
NoneZeroedBetween ==
  /\ last.ab.norms = last.ab_sum
  /\ last.bc.norms = last.bc_sum

\* C18 (amended): when neither A.gemm(B) nor B.gemm(C) has a tile whose sum
\* is not 0 and below the threshold, the two orders give the same norms, size
\* vectors and zero_tile_count.
C18_GemmAssociativeUnlessZeroedBetween ==
  (last.op = "gemm" /\ NoneZeroedBetween) =>
    View(heap, shapes[last.dst]) = last.right

\* C18 witness: both orders were computed with a sum of two products that are
\* not 0, nothing was zeroed in between, and the result has a norm that is
\* not 0.
C18_Witness ==
  /\ last.op = "gemm"
  /\ NoneZeroedBetween
  /\ last.A.range = <<1, 2>>
  /\ \A k \in 1..2 : last.A.norms[k] > 0 /\ last.B.norms[k] > 0
  /\ \E t \in Tiles(shapes[last.dst]) : norm(heap, shapes[last.dst], t) > 0

\* the quotient raw[t] / (product over d of size_d[t_d]) of the constructor
\* call on record
PerTile(t) == last.raw[t] \div TileVolume(last.trange, t)

\* C19: the constructor stores raw[t] / (product of the tile's extents),
\* replaced by 0 when strictly below the threshold, and zero_tile_count is the
\* number of tiles so replaced, whatever the rank (division for rank 1, the
\* recursive outer product of reciprocals otherwise); for tile extents
\* [2, 3, 5] and raw norms [8, 6, 5] at threshold 2 the norms are [4, 2, 0],
\* the count is 1 and sparsity() is 1/3.
C19_ConstructorPerTileFormula ==
  (last.op = "SparseShape") =>
    /\ \A t \in Tiles(shapes[last.dst]) :
         /\ last.raw[t] = PerTile(t) * TileVolume(last.trange, t)
         /\ norm(heap, shapes[last.dst], t) =
              IF PerTile(t) < threshold_ THEN 0 ELSE PerTile(t)
    /\ shapes[last.dst].zero_tile_count_ =
         Cardinality({t \in Tiles(shapes[last.dst]) : PerTile(t) < threshold_})
    /\ shapes[last.dst].size_vectors_ = last.trange
    /\ (last.trange = ExampleRange /\ last.raw = ExampleRaw /\ threshold_ = 2) =>
         /\ data(heap, shapes[last.dst]) = <<4, 2, 0>>
         /\ shapes[last.dst].zero_tile_count_ = 1
         /\ sparsity(shapes[last.dst]) = <<1, 3>>

\* C19 witness: the constructor has made a shape of rank 2 or more in which
\* one tile was replaced by 0 although its raw norm is not 0 and one tile is
\* stored at exactly the threshold.
C19_Witness ==
  /\ last.op = "SparseShape"
  /\ Len(last.trange) >= 2
  /\ \E t \in Tiles(shapes[last.dst]) :
       last.raw[t] > 0 /\ norm(heap, shapes[last.dst], t) = 0
  /\ \E t \in Tiles(shapes[last.dst]) :
       threshold_ > 0 /\ norm(heap, shapes[last.dst], t) = threshold_

\* the factor of the mult call on record (1 for mult(other))
MultFactorOnRecord == IF last.op = "factor" THEN Abs(last.factor) ELSE 1

\* |f| * S[t] * B[t] * (product of the result tile's extents) for the mult
\* call on record
MultProduct(t) ==
  MultFactorOnRecord * last.self.norms[t] * last.other.norms[t]
    * TileVolume(last.self.size_vectors, t)

\* the shapes of the example: one dimension, tile extents [1, 1], raw norms
\* [5, 7] and [2, 3]
MultExample(raw, thr) ==
  normalize(raw, <<<<1, 1>>>>, thr)

\* C20: the norm of S.mult(B) or S.mult(B, f) at t is |f| * S[t] * B[t] *
\* (product of the result tile's extents), 0 when that is below the threshold,
\* and zero_tile_count is the number of tiles set to 0; for tile extents
\* [1, 1], norms [5, 7] times [2, 3] give [10, 21] and no zero tile (at a
\* threshold that none of the example's norms is below).
C20_MultScaledByTileVolume ==
  /\ (last.op = "mult" \/ (last.op = "factor" /\ last.call = "mult")) =>
       /\ \A t \in Tiles(shapes[last.dst]) :
            norm(heap, shapes[last.dst], t) =
              IF MultProduct(t) < threshold_ THEN 0 ELSE MultProduct(t)
       /\ shapes[last.dst].zero_tile_count_ =
            Cardinality({t \in Tiles(shapes[last.dst]) : MultProduct(t) < threshold_})
       /\ shapes[last.dst].size_vectors_ = last.self.size_vectors
  /\ (threshold_ <= 2) =>
       \E r \in {mult(MultExample(<<5, 7>>, threshold_), MultExample(<<2, 3>>, threshold_),
                       threshold_)} :
         r.norms = <<10, 21>> /\ r.zero_tile_count = 0

\* C20 witness: mult with a factor has returned a shape with a tile of volume
\* 4 whose norm is not 0 and a tile set to 0 whose product is not 0.
C20_Witness ==
  /\ last.op = "factor"
  /\ last.call = "mult"
  /\ \E t \in Tiles(shapes[last.dst]) :
       /\ TileVolume(last.self.size_vectors, t) = 4
       /\ norm(heap, shapes[last.dst], t) > 0
  /\ \E t \in Tiles(shapes[last.dst]) :
       /\ MultProduct(t) > 0
       /\ norm(heap, shapes[last.dst], t) = 0

\* the inner size vectors of the contraction on record (those of L)
InnerSizes ==
  SubSeq(last.L.size_vectors, Len(last.L.range) - last.k_rank + 1, Len(last.L.range))

\* ksize[k]: the product of the inner tile extents of inner tile k (one-based)
KSize(k) == TileVolume(InnerSizes, k)

\* |f| * sum over the inner tiles k of (L[i,k] * ksize[k]) * (R[k,j] * ksize[k])
\* for result tile o (one-based, row-major over the outer tiles i of L and j
\* of R); |f| * L[i] * R[j] with no inner rank
ContractSum(o) ==
  LET N == Prod(SubSeq(last.R.range, last.k_rank + 1, Len(last.R.range)))
      K == Prod(Extents(InnerSizes))
      i == (o - 1) \div N
      j == (o - 1) % N
  IN IF last.k_rank = 0
     THEN Abs(last.factor) * last.L.norms[i + 1] * last.R.norms[j + 1]
     ELSE Abs(last.factor)
            * Sum([k \in 1..K |->
                     (last.L.norms[i * K + k] * KSize(k))
                       * (last.R.norms[(k - 1) * N + j + 1] * KSize(k))])

\* C21: L.gemm(R, f, helper) has the left-outer size vectors of L followed by
\* the right-outer size vectors of R, and its norm at result tile (i, j) is
\* |f| * sum over inner tiles k of (L[i,k] * ksize[k]) * (R[k,j] * ksize[k]),
\* or |f| * L[i] * R[j] with no inner rank, set to 0 when below the threshold.
C21_GemmNormsAndSizeVectors ==
  (last.op = "contract") =>
    /\ shapes[last.dst].size_vectors_ =
         SubSeq(last.L.size_vectors, 1, Len(last.L.range) - last.k_rank)
           \o SubSeq(last.R.size_vectors, last.k_rank + 1, Len(last.R.range))
    /\ Len(data(heap, shapes[last.dst])) =
         Prod(SubSeq(last.L.range, 1, Len(last.L.range) - last.k_rank))
           * Prod(SubSeq(last.R.range, last.k_rank + 1, Len(last.R.range)))
    /\ \A o \in Tiles(shapes[last.dst]) :
         norm(heap, shapes[last.dst], o) =
           IF ContractSum(o) < threshold_ THEN 0 ELSE ContractSum(o)

\* C21 witness: a contraction over two inner tiles has returned a norm that is
\* not 0 to which an inner tile of extent 4 contributes.
C21_Witness ==
  /\ last.op = "contract"
  /\ last.k_rank = 1
  /\ Len(InnerSizes[1]) = 2
  /\ \E k \in 1..2 :
       /\ KSize(k) = 4
       /\ last.L.norms[k] > 0
       /\ last.R.norms[k] > 0
  /\ norm(heap, shapes[last.dst], 1) > 0

\* the shape the claim names: the ranks' raw norms summed element-wise, then
\* normalized and thresholded once
SumThenNormalize ==
  normalize([i \in 1..Volume(Extents(last.trange)) |->
               last.raw["x"][i] + last.raw["y"][i]],
            last.trange, threshold_)

\* C22: the collective constructor returns on every rank the shape obtained
\* by summing the ranks' raw norms and then normalizing and thresholding once;
\* a tile whose per-rank raw norms are each below threshold * volume but whose
\* sum is not is kept non-zero, and all ranks end with the same norms and
\* zero_tile_count.
C22_CollectiveSumThenNormalize ==
  (last.op = "collective") =>
    /\ \A rank \in Slots :
         (last.pc[rank] = "done") => View(heap, shapes[rank]) = SumThenNormalize
    /\ (\A rank \in Slots : last.pc[rank] = "done") =>
         /\ data(heap, shapes["x"]) = data(heap, shapes["y"])
         /\ shapes["x"].zero_tile_count_ = shapes["y"].zero_tile_count_
         /\ \A t \in Tiles(shapes["x"]) :
              LET bound == threshold_ * TileVolume(last.trange, t)
              IN (/\ \A rank \in Slots : last.raw[rank][t] < bound
                  /\ last.raw["x"][t] + last.raw["y"][t] >= bound)
                   => \A rank \in Slots : norm(heap, shapes[rank], t) > 0

\* C22 witness: both ranks have finished, and a tile whose raw norm is below
\* threshold * volume on each rank, but not in sum, is not 0.
C22_Witness ==
  /\ last.op = "collective"
  /\ \A rank \in Slots : last.pc[rank] = "done"
  /\ threshold_ > 0
  /\ \E t \in Tiles(shapes["x"]) :
       /\ \A rank \in Slots :
            last.raw[rank][t] < threshold_ * TileVolume(last.trange, t)
       /\ norm(heap, shapes["x"], t) > 0
       /\ norm(heap, shapes["y"], t) > 0

C24_SizeVectorsMatchRange ==
  \A s \in Slots :
    ~empty(shapes[s]) =>
      /\ Len(shapes[s].size_vectors_) = Len(shapes[s].tile_norms_.range)
      /\ \A d \in 1..Len(shapes[s].tile_norms_.range) :
           Len(shapes[s].size_vectors_[d]) = shapes[s].tile_norms_.range[d]


---------------------------------------------------------------------------
(* C25 *)

\* the tiles of the running kernel whose value is below the threshold the
\* kernel read
KernelBelow == {i \in 1..Len(last.self.norms) : KernelValue(i) < last.threshold}

---------------------------------------------------------------------------
(* C30 *)

\* C30: a kernel reads the static threshold once, when it starts, and tests
\* every tile against that one value: when the setter is called while the
\* kernel runs, every tile of the result is still the value screened by the
\* threshold the kernel read, and the result's count is the number of tiles
\* below that threshold, which are the tiles the kernel set to zero
C30_OneThresholdPerKernel ==
  (last.op = "kernel" /\ last.phase = "done") =>
    /\ \A i \in 1..Len(last.self.norms) :
         data(heap, shapes[last.dst])[i] = Screen(KernelValue(i), last.threshold)
    /\ shapes[last.dst].zero_tile_count_
         = Cardinality({i \in 1..Len(last.self.norms) : KernelValue(i) < last.threshold})
    /\ last.threshold > 0 =>
         shapes[last.dst].zero_tile_count_
           = Cardinality({i \in Tiles(shapes[last.dst]) :
                            data(heap, shapes[last.dst])[i] = 0})

\* the setter raised the threshold while a kernel ran, and the result keeps a
\* tile that is below the new threshold and has a tile that was zeroed
C30_Witness ==
  /\ last.op = "kernel"
  /\ last.phase = "done"
  /\ last.during
  /\ threshold_ > last.threshold
  /\ shapes[last.dst].zero_tile_count_ >= 1
  /\ \E i \in Tiles(shapes[last.dst]) :
       /\ data(heap, shapes[last.dst])[i] > 0
       /\ data(heap, shapes[last.dst])[i] < threshold_

---------------------------------------------------------------------------
(* C26 *)

\* C26: each overload that takes a permutation returns what the overload
\* without it returns, permuted: scale(f, p) = scale(f).perm(p),
\* add(B, f, p) = add(B, f).perm(p), mult(B, f, p) = mult(B, f).perm(p) and
\* gemm(B, f, h, p) = gemm(B, f, h).perm(p), in the norms, the range, the
\* size vectors and the zero tile count
C26_PermutingIsOpThenPerm ==
  last.op = "permuting" =>
    /\ data(heap, shapes[last.dst]) = last.then.norms
    /\ shapes[last.dst].tile_norms_.range = last.then.range
    /\ shapes[last.dst].size_vectors_ = last.then.size_vectors
    /\ shapes[last.dst].zero_tile_count_ = last.then.zero_tile_count

\* mult(B, f, p) with a permutation that moves tiles of different volume and
\* norm, of which one is zero and one is not
C26_Witness ==
  /\ last.op = "permuting"
  /\ last.call = "mult"
  /\ last.p = <<2, 1>>
  /\ Len(last.plain.norms) = 4
  /\ last.plain.norms # last.then.norms
  /\ last.plain.size_vectors # last.then.size_vectors
  /\ shapes[last.dst].zero_tile_count_ >= 1
  /\ \E i \in Tiles(shapes[last.dst]) : data(heap, shapes[last.dst])[i] > 0

---------------------------------------------------------------------------
(* C27 *)

\* C27: a BinaryTiledTensor answers that tile i is zero exactly when neither
\* argument is dense and, for an operation like addition, both argument tiles
\* are zero or, for std::multiplies, at least one of them is; when either
\* argument is dense no tile is zero
C27_ZeroQueryOfBinaryTensor ==
  last.op = "tensor" =>
    \A i \in TTiles :
      last.answer[i] # "none" =>
        /\ (last.answer[i] = "zero") <=>
             /\ ~last.T.left.dense
             /\ ~last.T.right.dense
             /\ IF last.T.Op = "multiplies"
                THEN last.T.left.zero[i] \/ last.T.right.zero[i]
                ELSE last.T.left.zero[i] /\ last.T.right.zero[i]
        /\ (last.T.left.dense \/ last.T.right.dense) => last.answer[i] = "tile"

\* a product of two sparse arguments answered zero for a tile that only one
\* argument lacks, and tile for the other
C27_Witness ==
  /\ last.op = "tensor"
  /\ last.T.Op = "multiplies"
  /\ ~last.T.left.dense
  /\ ~last.T.right.dense
  /\ last.answer[1] = "zero"
  /\ last.T.left.zero[1] # last.T.right.zero[1]
  /\ last.answer[2] = "tile"

---------------------------------------------------------------------------
(* C28 *)

\* the tiles an argument stores are the tiles it does not answer zero for
StoresItsNonZeroTiles(arg) ==
  \A i \in TTiles : (i \in arg.present) <=> ~arg.zero[i]

\* every tile that is not zero has been set once the two passes are over
C28_NonZeroTilesSet ==
  (last.op = "tensor" /\ last.phase \in {"done", "evaluated"}) =>
    \A i \in TTiles : ~tensor_is_zero(last.T, i) => last.sets[i] >= 1

\* the two passes run only after both arguments are evaluated
C28_TasksAfterArguments ==
  (last.op = "tensor" /\ last.phase # "args") => (last.left_done /\ last.right_done)

\* C28: while the tile tasks of a BinaryTiledTensor are generated, under any
\* interleaving of the EvalLeft and EvalRight passes the result of each tile
\* index is set at most once, every tile that is_zero does not report zero
\* has its result set, and the tile tasks are generated only after both
\* argument evaluations have completed
C28_EachTileSetOnce ==
  /\ last.op = "tensor" => \A i \in TTiles : last.sets[i] <= 1
  /\ C28_NonZeroTilesSet
  /\ C28_TasksAfterArguments

\* the same for a left argument that stores exactly the tiles it does not
\* answer zero for
C28_EachTileSetOnceForArrays ==
  (last.op = "tensor" /\ StoresItsNonZeroTiles(last.T.left)) =>
    \A i \in TTiles : last.sets[i] <= 1

---------------------------------------------------------------------------
(* C29 *)

\* C29: in every shape that exists the zero tile count is at least 0 and at
\* most the number of tiles, so that sparsity() is within [0, 1]: the count
\* is not stepped below 0 (where the unsigned member would wrap) by
\* update_block, nor above the number of tiles by mask or update_block
C29_CountWithinTiles ==
  \A s \in Slots :
    ~empty(shapes[s]) =>
      /\ shapes[s].zero_tile_count_ >= 0
      /\ shapes[s].zero_tile_count_ <= Volume(shapes[s].tile_norms_.range)

\* the upper half of C29 alone
C29_CountAtMostTiles ==
  \A s \in Slots :
    ~empty(shapes[s]) => shapes[s].zero_tile_count_ <= Volume(shapes[s].tile_norms_.range)

\* the lower half of C29 alone
C29_CountAtLeastZero ==
  \A s \in Slots : ~empty(shapes[s]) => shapes[s].zero_tile_count_ >= 0
=============================================================================
